---- MODULE Spec2Model ----
(***************************************************************************)
(* Stratavore: agent lifecycle manager (agents/agent_manager.py), time     *)
(* session tracker (jobs/time_tracker.py) and job dependency tools         *)
(* (jobs/job_tools.py), modelled as state machines over a shared integer   *)
(* clock that counts seconds.                                              *)
(***************************************************************************)
EXTENDS Integers, Sequences, FiniteSets, Bags, TLC

VARIABLES
    now,          \* wall clock, whole seconds (time.time() / datetime.now())
    live,         \* AgentManager instances that have been constructed
    agents,       \* agents[m]: the in-memory dict self.agents of instance m
    agents_file,  \* content of agents/active_agents.jsonl
    timers,       \* bag of running complete_spawning threads <<m, agent_id, due>>
    threads,      \* threads[t]: the operation thread t is inside and what is left of it
    _lock,        \* the threads inside a "with self._lock" block
    raw_file,     \* a record file as text lines, as a loader finds it on disk
    workflow,     \* the steps given to execute_workflow, its loop index and its results
    sessions_file,\* content of time_sessions.jsonl, one session record per line
    loaded,       \* loaded[c]: the command caller c runs and the sessions it has loaded
    jobs,         \* content of jobs/jobs.jsonl as load_jobs returns it
    walk,         \* validate_dependencies under way: its loop index and the frames of visit
    op,           \* the last operation and its arguments
    ret,          \* the value the last operation returned
    steps,        \* number of manager operations performed so far
    ticks         \* number of clock advances so far

agentVars == <<live, agents, agents_file, timers, threads, _lock, raw_file, workflow>>
sessionVars == <<sessions_file, loaded>>
jobVars == <<jobs, walk>>

vars == <<now, agentVars, sessionVars, jobVars, op, ret, steps, ticks>>

----------------------------------------------------------------------------
(* Bounds of the model *)

MaxManagers == 2
MaxAgents == 2
MaxSteps == 4
MaxTicks == 1
MaxSessions == 2
MaxSessionSteps == 5
MaxSessionTicks == 3
MaxJobs == 3
MaxDeps == 2
MaxEdits == 4
MaxCallers == 2
MaxConcSteps == 4
MaxConcTicks == 1
MaxMultiSteps == 3
MaxPrefixSteps == 3
MaxThoughtSteps == 53
MaxThreads == 2
MaxThreadSteps == 3
MaxThreadTicks == 1
MaxLines == 3
MaxWorkflowSteps == 3
MaxRaceSteps == 4
MaxWalkJobs == 2
MaxWalkDeps == 2
MaxVisitDepth == 6

----------------------------------------------------------------------------
(* Program constants *)

ThoughtCap == 50
StaleSeconds == 30
SpawnDelay == 2

None == "None"

\* what a call without a return value leaves as its result
NoValue == <<>>

IDLE == "idle"
WORKING == "working"
PAUSED == "paused"
COMPLETED == "completed"
ERROR == "error"
SPAWNING == "spawning"

AgentStatus == {IDLE, WORKING, PAUSED, COMPLETED, ERROR, SPAWNING}

AgentPersonality == {"cadet", "senior", "specialist", "researcher", "debugger", "optimizer"}

Managers == 1..MaxManagers

\* inputs of the operations
PersonalityArgs == {"cadet", "senior"}
SpawnTaskArgs == {None, "t1"}
TaskArgs == {"t1", "t2"}
ThoughtArgs == {None, "note"}
TickSteps == {SpawnDelay, StaleSeconds, StaleSeconds + 1}
UnknownAgent == <<"nobody", 0>>

\* a session id that no session has
UnknownSession == <<"nojob", 0>>

\* concurrent callers of the time tracker (one process per command line)
Callers == 1..MaxCallers

\* caller that is not inside a command
Idle == [name |-> None, session_id |-> UnknownSession, notes |-> "", sessions |-> <<>>]

\* threads that call into one AgentManager instance
Threads == 1..MaxThreads

\* the agent id of a thread that is in no operation
NoAgent == <<"", 0>>

\* a record file that does not exist
NoFile == [kind |-> "jobs", exists |-> FALSE, lines |-> <<>>]

\* validate_dependencies has not been called
NoWalk == [k |-> 0, stack |-> <<>>, pending |-> FALSE, returned |-> FALSE,
           valid |-> TRUE, done |-> FALSE]

\* execute_workflow has not been called
NoWorkflow == [steps |-> <<>>, i |-> 0, steps_completed |-> <<>>, steps_failed |-> <<>>,
               agents_spawned |-> <<>>]

\* thread that is not inside an operation
Resting == [name |-> None, agent_id |-> NoAgent, todo |-> <<>>, lines |-> <<>>]

----------------------------------------------------------------------------
(* Helpers on the agent dict: a sequence of records in insertion order *)

RECURSIVE GCD(_, _)
GCD(a, b) == IF b = 0 THEN a ELSE GCD(b, a % b)

\* a rational number in lowest terms
Rat(n, d) == LET g == GCD(n, d) IN [num |-> n \div g, den |-> d \div g]

Ids(d) == {d[i].id : i \in 1..Len(d)}

IndexOf(d, id) == CHOOSE i \in 1..Len(d) : d[i].id = id

Get(d, id) == d[IndexOf(d, id)]

\* self.agents[agent_id] = agent_data
DictSet(d, id, data) ==
    IF id \in Ids(d) THEN [d EXCEPT ![IndexOf(d, id)] = data] ELSE Append(d, data)

\* mutant: the value is used without the truthiness test
Truthy_unchecked(s) == TRUE

\* Python truthiness of an optional string
Truthy(s) == s # None /\ s # ""

\* mutant: the first n entries are kept, the newest dropped
FirstN(s, n) == IF Len(s) > n THEN SubSeq(s, 1, n) ELSE s

\* s[-n:]
LastN(s, n) == IF Len(s) > n THEN SubSeq(s, Len(s) - n + 1, Len(s)) ELSE s

Thought(t, kind, a, b) == [timestamp |-> t, kind |-> kind, a |-> a, b |-> b]

add_agent_thought(d, id, t, th) ==
    IF id \notin Ids(d) THEN d
    ELSE LET agent == Get(d, id)
             appended == Append(agent.thoughts, th)
             kept == IF Len(appended) > ThoughtCap THEN LastN(appended, ThoughtCap)
                     ELSE appended
         IN DictSet(d, id, [agent EXCEPT !.thoughts = kept])

\* mutant: the transition thought is logged also when the status stays the same
update_agent_status_always_logs(d, id, status, thought, t) ==
    IF id \notin Ids(d) THEN d
    ELSE LET agent == Get(d, id)
             d1 == DictSet(d, id, [agent EXCEPT !.status = status, !.updated_at = t])
             d2 == add_agent_thought(d1, id, t,
                       Thought(t, "Status changed", agent.status, status))
         IN IF Truthy(thought)
            THEN add_agent_thought(d2, id, t, Thought(t, thought, "", ""))
            ELSE d2

update_agent_status(d, id, status, thought, t) ==
    IF id \notin Ids(d) THEN d
    ELSE LET agent == Get(d, id)
             old_status == agent.status
             d1 == DictSet(d, id, [agent EXCEPT !.status = status, !.updated_at = t])
             d2 == IF old_status # status
                   THEN add_agent_thought(d1, id, t,
                            Thought(t, "Status changed", old_status, status))
                   ELSE d1
             d3 == IF Truthy(thought)
                   THEN add_agent_thought(d2, id, t, Thought(t, thought, "", ""))
                   ELSE d2
         IN d3

----------------------------------------------------------------------------
(* AgentManager operations *)

Call(name, args, result) ==
    /\ steps' = steps + 1
    /\ op' = [name |-> name, args |-> args]
    /\ ret' = result
    /\ UNCHANGED <<threads, _lock, raw_file, workflow>>

Step(name, args, result) ==
    /\ steps < MaxSteps
    /\ Call(name, args, result)
    /\ UNCHANGED <<sessionVars, jobVars>>

\* save_agent has run: the file holds the instance's whole dict
Saved(m, d) ==
    /\ agents' = [agents EXCEPT ![m] = d]
    /\ agents_file' = d

spawn_agent(m, personality, task_id) ==
    LET agent_id == <<personality, now>>
        agent_data == [id |-> agent_id,
                       personality |-> personality,
                       status |-> SPAWNING,
                       created_at |-> now,
                       updated_at |-> now,
                       current_task |-> task_id,
                       completed_tasks |-> <<>>,
                       thoughts |-> <<>>,
                       metrics |-> [tasks_completed |-> 0, success_rate |-> Rat(0, 1)]]
        d == DictSet(agents[m], agent_id, agent_data)
    IN /\ Len(d) <= MaxAgents
       /\ Step("spawn_agent", <<m, personality, task_id>>, agent_id)
       /\ Saved(m, d)
       /\ timers' = timers (+) SetToBag({<<m, agent_id, now + SpawnDelay>>})
       /\ UNCHANGED <<now, live, ticks>>

\* the background thread started by spawn_agent, after its time.sleep(2)
complete_spawning(tm) ==
    LET m == tm[1]
        agent_id == tm[2]
    IN /\ BagIn(tm, timers)
       /\ now >= tm[3]
       /\ Step("complete_spawning", <<m, agent_id>>, NoValue)
       /\ timers' = timers (-) SetToBag({tm})
       /\ IF agent_id \in Ids(agents[m])
          THEN Saved(m, update_agent_status(agents[m], agent_id, IDLE,
                                            "Agent startup completed successfully", now))
          ELSE UNCHANGED <<agents, agents_file>>
       /\ UNCHANGED <<now, live, ticks>>

\* mutant: only a working agent is refused
assign_task_ok_unless_working(d, agent_id) ==
    /\ agent_id \in Ids(d)
    /\ Get(d, agent_id).status # WORKING

assign_task_ok(d, agent_id) ==
    /\ agent_id \in Ids(d)
    /\ Get(d, agent_id).status \in {IDLE, COMPLETED}

assign_task(m, agent_id, task_id) ==
    LET d == agents[m]
    IN IF ~assign_task_ok(d, agent_id)
       THEN /\ Step("assign_task", <<m, agent_id, task_id>>, FALSE)
            /\ UNCHANGED <<now, live, agents, agents_file, timers, ticks>>
       ELSE LET agent == Get(d, agent_id)
                d1 == DictSet(d, agent_id, [agent EXCEPT !.current_task = task_id,
                                                         !.status = WORKING,
                                                         !.updated_at = now])
                d2 == add_agent_thought(d1, agent_id, now,
                          Thought(now, "Assigned new task", task_id, ""))
            IN /\ Step("assign_task", <<m, agent_id, task_id>>, TRUE)
               /\ Saved(m, d2)
               /\ UNCHANGED <<now, live, timers, ticks>>

UpdateStatus(m, agent_id, status, thought) ==
    /\ Step("update_agent_status", <<m, agent_id, status, thought>>, NoValue)
    /\ IF agent_id \in Ids(agents[m])
       THEN Saved(m, update_agent_status(agents[m], agent_id, status, thought, now))
       ELSE UNCHANGED <<agents, agents_file>>
    /\ UNCHANGED <<now, live, timers, ticks>>

\* AgentActionAPIHandler._handle_kill_agent
kill_agent(m, agent_id) ==
    /\ Step("kill_agent", <<m, agent_id>>, agent_id \in Ids(agents[m]))
    /\ IF agent_id \in Ids(agents[m])
       THEN Saved(m, update_agent_status(agents[m], agent_id, ERROR, "Killed via web UI", now))
       ELSE UNCHANGED <<agents, agents_file>>
    /\ UNCHANGED <<now, live, timers, ticks>>

\* the success_rate recurrence of complete_task
success_rate_update(metrics, success) ==
    IF success
    THEN Rat(metrics.success_rate.num * (metrics.tasks_completed - 1)
                 + 100 * metrics.success_rate.den,
             metrics.success_rate.den * metrics.tasks_completed)
    ELSE metrics.success_rate

\* mutant: tasks_completed counts only the tasks that succeeded
complete_task_dict_counting_successes(d, agent_id, success, notes, t) ==
    LET agent == Get(d, agent_id)
        task_id == agent.current_task
        d1 == IF Truthy(task_id)
              THEN LET m1 == [agent.metrics EXCEPT !.tasks_completed = IF success THEN @ + 1 ELSE @]
                       m2 == [m1 EXCEPT !.success_rate = success_rate_update(m1, success)]
                       a1 == [agent EXCEPT
                                !.completed_tasks = Append(@, [task_id |-> task_id,
                                                               completed_at |-> t,
                                                               success |-> success,
                                                               notes |-> notes]),
                                !.metrics = m2]
                   IN add_agent_thought(DictSet(d, agent_id, a1), agent_id, t,
                          Thought(t, "Completed task", task_id,
                                  IF success THEN "SUCCESS" ELSE "FAILED"))
              ELSE d
        a2 == Get(d1, agent_id)
    IN DictSet(d1, agent_id, [a2 EXCEPT !.current_task = None,
                                        !.status = IDLE,
                                        !.updated_at = t])

\* the whole of complete_task on a known agent
complete_task_dict(d, agent_id, success, notes, t) ==
    LET agent == Get(d, agent_id)
        task_id == agent.current_task
        d1 == IF Truthy(task_id)
              THEN LET m1 == [agent.metrics EXCEPT !.tasks_completed = @ + 1]
                       m2 == [m1 EXCEPT !.success_rate = success_rate_update(m1, success)]
                       a1 == [agent EXCEPT
                                !.completed_tasks = Append(@, [task_id |-> task_id,
                                                               completed_at |-> t,
                                                               success |-> success,
                                                               notes |-> notes]),
                                !.metrics = m2]
                   IN add_agent_thought(DictSet(d, agent_id, a1), agent_id, t,
                          Thought(t, "Completed task", task_id,
                                  IF success THEN "SUCCESS" ELSE "FAILED"))
              ELSE d
        a2 == Get(d1, agent_id)
    IN DictSet(d1, agent_id, [a2 EXCEPT !.current_task = None,
                                        !.status = IDLE,
                                        !.updated_at = t])

complete_task(m, agent_id, success, notes) ==
    IF agent_id \notin Ids(agents[m])
    THEN /\ Step("complete_task", <<m, agent_id, success, notes>>, FALSE)
         /\ UNCHANGED <<now, live, agents, agents_file, timers, ticks>>
    ELSE /\ Step("complete_task", <<m, agent_id, success, notes>>, TRUE)
         /\ Saved(m, complete_task_dict(agents[m], agent_id, success, notes, now))
         /\ UNCHANGED <<now, live, timers, ticks>>

\* mutant: the age test is >= instead of >
RECURSIVE stuck_agents_ge(_, _)
stuck_agents_ge(d, t) ==
    IF d = <<>> THEN <<>>
    ELSE LET agent_data == Head(d)
             rest == stuck_agents_ge(Tail(d), t)
         IN IF agent_data.status = SPAWNING /\ t - agent_data.created_at >= StaleSeconds
            THEN <<agent_data.id>> \o rest
            ELSE rest

\* the ids unstuck_spawning_agents collects, in dict order
RECURSIVE stuck_agents(_, _)
stuck_agents(d, t) ==
    IF d = <<>> THEN <<>>
    ELSE LET agent_data == Head(d)
             rest == stuck_agents(Tail(d), t)
         IN IF agent_data.status = SPAWNING /\ t - agent_data.created_at > StaleSeconds
            THEN <<agent_data.id>> \o rest
            ELSE rest

\* mutant: the scan finds the stuck agents but does not move them
recover_none(d, ids, t) == d

RECURSIVE recover_all(_, _, _)
recover_all(d, ids, t) ==
    IF ids = <<>> THEN d
    ELSE recover_all(update_agent_status(d, Head(ids), IDLE,
                                         "Auto-recovered from stuck spawning state", t),
                     Tail(ids), t)

unstuck_spawning_agents(m) ==
    LET stuck == stuck_agents(agents[m], now)
    IN /\ Step("unstuck_spawning_agents", <<m>>, stuck)
       /\ IF stuck # <<>>
          THEN Saved(m, recover_all(agents[m], stuck, now))
          ELSE UNCHANGED <<agents, agents_file>>
       /\ UNCHANGED <<now, live, timers, ticks>>

get_available_agents(d, personality) ==
    SelectSeq(d, LAMBDA a : /\ a.status \in {IDLE, COMPLETED}
                            /\ (personality = None \/ a.personality = personality))

\* the clock advances by d seconds between two calls
Tick(d) ==
    /\ ticks' = ticks + 1
    /\ now' = now + d
    /\ op' = [name |-> "tick", args |-> <<d>>]
    /\ ret' = NoValue
    /\ UNCHANGED <<agentVars, sessionVars, jobVars, steps>>

InitAgent ==
    /\ now = 0
    /\ live = {1}
    /\ agents = [m \in Managers |-> <<>>]
    /\ agents_file = <<>>
    /\ timers = EmptyBag
    /\ threads = [t \in Threads |-> Resting]
    /\ _lock = {}
    /\ raw_file = NoFile
    /\ workflow = NoWorkflow
    /\ op = [name |-> "init", args |-> <<>>]
    /\ ret = NoValue
    /\ steps = 0
    /\ ticks = 0
    /\ sessions_file = <<>>
    /\ loaded = [c \in Callers |-> Idle]
    /\ jobs = <<>>
    /\ walk = NoWalk

AgentArgs(m) == Ids(agents[m]) \cup {UnknownAgent}

NextAgent ==
    \/ \E m \in live, p \in PersonalityArgs, t \in SpawnTaskArgs : spawn_agent(m, p, t)
    \/ \E tm \in BagToSet(timers) : complete_spawning(tm)
    \/ \E m \in live : \E a \in AgentArgs(m), t \in TaskArgs : assign_task(m, a, t)
    \/ \E m \in live : \E a \in AgentArgs(m), s \in AgentStatus, th \in ThoughtArgs :
           UpdateStatus(m, a, s, th)
    \/ \E m \in live : \E a \in AgentArgs(m) : kill_agent(m, a)
    \/ \E m \in live : \E a \in AgentArgs(m), success \in BOOLEAN :
           complete_task(m, a, success, "")
    \/ \E m \in live : unstuck_spawning_agents(m)
    \/ \E d \in TickSteps : ticks < MaxTicks /\ Tick(d)

SpecAgent == InitAgent /\ [][NextAgent]_vars

----------------------------------------------------------------------------
(* One agent over a long run: after the first MaxPrefixSteps calls the only    *)
(* calls are add_agent_thought, each with a text of its own, so that the      *)
(* thought log fills up to its cap and past it.                               *)

AddThought(m, agent_id) ==
    /\ steps < MaxThoughtSteps
    /\ agent_id \in Ids(agents[m])
    /\ Call("add_agent_thought", <<m, agent_id, ToString(steps)>>, NoValue)
    /\ Saved(m, add_agent_thought(agents[m], agent_id, now,
                                  Thought(now, ToString(steps), "", "")))
    /\ UNCHANGED <<now, live, timers, ticks, sessionVars, jobVars>>

NextThoughts ==
    \/ \E m \in live, t \in SpawnTaskArgs :
           steps < MaxPrefixSteps /\ agents[m] = <<>> /\ spawn_agent(m, "cadet", t)
    \/ \E tm \in BagToSet(timers) : steps < MaxPrefixSteps /\ complete_spawning(tm)
    \/ \E m \in live : \E a \in Ids(agents[m]), t \in TaskArgs :
           steps < MaxPrefixSteps /\ assign_task(m, a, t)
    \/ \E m \in live : \E a \in Ids(agents[m]), s \in AgentStatus, th \in ThoughtArgs :
           steps < MaxPrefixSteps /\ UpdateStatus(m, a, s, th)
    \/ \E m \in live : \E a \in Ids(agents[m]), success \in BOOLEAN :
           steps < MaxPrefixSteps /\ complete_task(m, a, success, "")
    \/ \E m \in live : \E a \in Ids(agents[m]) : AddThought(m, a)
    \/ ticks < MaxTicks /\ Tick(SpawnDelay)

SpecThoughts == InitAgent /\ [][NextThoughts]_vars

----------------------------------------------------------------------------
(* Several AgentManager instances on one agents file: the web handlers       *)
(* construct an instance per request, and a spawn thread keeps the instance   *)
(* that started it.  Each instance saves its own dict as the whole file.      *)

\* AgentManager(): load_agent_data reads the file into self.agents and then runs
\* unstuck_spawning_agents on what it read
load_agent_data(m) ==
    LET d == agents_file
        stuck == stuck_agents(d, now)
    IN /\ m \notin live
       /\ live' = live \cup {m}
       /\ IF stuck # <<>>
          THEN Saved(m, recover_all(d, stuck, now))
          ELSE /\ agents' = [agents EXCEPT ![m] = d]
               /\ UNCHANGED agents_file
       /\ op' = [name |-> "AgentManager", args |-> <<m>>]
       /\ ret' = stuck
       /\ UNCHANGED <<now, timers, threads, _lock, raw_file, workflow, sessionVars, jobVars, steps, ticks>>

NextAgentMulti ==
    \/ \E m \in Managers : load_agent_data(m)
    \/ \E m \in live, p \in PersonalityArgs, t \in SpawnTaskArgs :
           steps < MaxMultiSteps /\ spawn_agent(m, p, t)
    \/ \E tm \in BagToSet(timers) : steps < MaxMultiSteps /\ complete_spawning(tm)
    \/ \E m \in live : \E a \in AgentArgs(m), t \in TaskArgs :
           steps < MaxMultiSteps /\ assign_task(m, a, t)
    \/ \E m \in live : \E a \in AgentArgs(m), s \in AgentStatus, th \in ThoughtArgs :
           steps < MaxMultiSteps /\ UpdateStatus(m, a, s, th)
    \/ \E m \in live : \E a \in AgentArgs(m) : steps < MaxMultiSteps /\ kill_agent(m, a)
    \/ \E m \in live : \E a \in AgentArgs(m), success \in BOOLEAN :
           steps < MaxMultiSteps /\ complete_task(m, a, success, "")
    \/ \E m \in live : steps < MaxMultiSteps /\ unstuck_spawning_agents(m)
    \/ \E d \in TickSteps : ticks < MaxTicks /\ Tick(d)

SpecAgentMulti == InitAgent /\ [][NextAgentMulti]_vars

----------------------------------------------------------------------------
(* Spawning over the life of processes: one process at a time owns the       *)
(* AgentManager; when it exits its daemon spawn threads die with it, and the  *)
(* next process constructs a new AgentManager, whose load_agent_data scans    *)
(* for stuck agents.  The clock is followed while a spawning agent is not     *)
(* yet stale.                                                                 *)

\* the state of the program without the record of the last call
storedVars == <<now, agentVars, sessionVars, jobVars, steps, ticks>>

\* the process of instance m ends: its memory and its daemon threads are gone
process_exit(m) ==
    LET left == {tm \in BagToSet(timers) : tm[1] # m}
    IN /\ m \in live
       /\ live' = live \ {m}
       /\ agents' = [agents EXCEPT ![m] = <<>>]
       /\ timers' = [tm \in left |-> timers[tm]]
       /\ op' = [name |-> "exit", args |-> <<m>>]
       /\ ret' = NoValue
       /\ UNCHANGED <<now, agents_file, threads, _lock, raw_file, workflow, sessionVars, jobVars, steps, ticks>>

\* some agent of the file is spawning and not yet older than the stale limit
SpawningFresh ==
    \E i \in 1..Len(agents_file) :
        /\ agents_file[i].status = SPAWNING
        /\ now - agents_file[i].created_at <= StaleSeconds

\* some spawn thread is still in its sleep
TimerSleeping == \E tm \in BagToSet(timers) : now < tm[3]

\* the clock moves to the end of a sleep, or by a stale limit
SpawnTick ==
    \/ TimerSleeping /\ Tick(SpawnDelay)
    \/ \E d \in TickSteps \ {SpawnDelay} : SpawningFresh /\ Tick(d)

SpawnTimer == \E tm \in BagToSet(timers) : complete_spawning(tm)

SpawnExit == \E m \in live : process_exit(m)

\* the next process starts when no process is running
SpawnStart == \E m \in Managers : live = {} /\ (\A k \in Managers : m <= k) /\ load_agent_data(m)

\* a spawn leaves room in the step budget for its own thread and the pending ones
NextSpawn ==
    \/ \E m \in live, p \in PersonalityArgs :
           steps + BagCardinality(timers) + 2 <= MaxSteps /\ spawn_agent(m, p, None)
    \/ SpawnTimer
    \/ SpawnExit
    \/ SpawnStart
    \/ SpawnTick

\* the clock runs, and a spawn thread of a living process wakes up after its sleep;
\* whether and when a process ends and another starts is left open
SpecSpawn ==
    /\ InitAgent
    /\ [][NextSpawn]_vars
    /\ WF_storedVars(SpawnTick)
    /\ WF_storedVars(SpawnTimer)

----------------------------------------------------------------------------
(* Threads of one AgentManager instance.  The callers' threads and the       *)
(* spawn threads share self.agents and self._lock.  An operation changes     *)
(* the record of its agent in memory and calls save_agent, which inside      *)
(* "with self._lock" stores the record, builds the lines of the whole dict   *)
(* and writes them over the file.  The calls in flight are on different      *)
(* agents, and an operation stamps its records with the time of its start.   *)

\* the instance the threads share
Shared == 1

\* a change of the agent's record in memory
Set(agent) == [kind |-> "set", agent |-> agent]

\* a call save_agent(agent_id, agent)
Save(agent) == [kind |-> "save", agent |-> agent]

\* save_agent(agent_id, agent_data) of spawn_agent
spawn_agent_todo(agent_data) == <<Save(agent_data)>>

\* update_agent_status on a known agent, with the saves of add_agent_thought
update_agent_status_todo(d, agent_id, status, thought, t) ==
    LET agent == Get(d, agent_id)
        old_status == agent.status
        a0 == [agent EXCEPT !.status = status, !.updated_at = t]
        a1 == Get(add_agent_thought(DictSet(d, agent_id, a0), agent_id, t,
                      Thought(t, "Status changed", old_status, status)), agent_id)
        b == IF old_status # status THEN a1 ELSE a0
        a2 == Get(add_agent_thought(DictSet(d, agent_id, b), agent_id, t,
                      Thought(t, thought, "", "")), agent_id)
        last == IF Truthy(thought) THEN a2 ELSE b
    IN <<Set(a0)>>
       \o (IF old_status # status THEN <<Set(a1), Save(a1)>> ELSE <<>>)
       \o (IF Truthy(thought) THEN <<Set(a2), Save(a2)>> ELSE <<>>)
       \o <<Save(last)>>

\* assign_task on an available agent
assign_task_todo(d, agent_id, task_id, t) ==
    LET agent == Get(d, agent_id)
        a0 == [agent EXCEPT !.current_task = task_id, !.status = WORKING, !.updated_at = t]
        a1 == Get(add_agent_thought(DictSet(d, agent_id, a0), agent_id, t,
                      Thought(t, "Assigned new task", task_id, "")), agent_id)
    IN <<Set(a0), Set(a1), Save(a1), Save(a1)>>

\* complete_task on a known agent
complete_task_todo(d, agent_id, success, notes, t) ==
    LET agent == Get(d, agent_id)
        task_id == agent.current_task
        m1 == [agent.metrics EXCEPT !.tasks_completed = @ + 1]
        m2 == [m1 EXCEPT !.success_rate = success_rate_update(m1, success)]
        a0 == [agent EXCEPT
                 !.completed_tasks = Append(@, [task_id |-> task_id,
                                                completed_at |-> t,
                                                success |-> success,
                                                notes |-> notes]),
                 !.metrics = m2]
        a1 == Get(add_agent_thought(DictSet(d, agent_id, a0), agent_id, t,
                      Thought(t, "Completed task", task_id,
                              IF success THEN "SUCCESS" ELSE "FAILED")), agent_id)
        b == IF Truthy(task_id) THEN a1 ELSE agent
        a2 == [b EXCEPT !.current_task = None, !.status = IDLE, !.updated_at = t]
    IN (IF Truthy(task_id) THEN <<Set(a0), Set(a1), Save(a1)>> ELSE <<>>)
       \o <<Set(a2), Save(a2)>>

\* some thread is inside an operation on the agent
Busy(agent_id) == \E u \in Threads : threads[u].agent_id = agent_id

\* thread t enters an operation: it reads its agent and has todo before it
Begin(t, name, args, agent_id, todo) ==
    /\ threads[t] = Resting
    /\ ~Busy(agent_id)
    /\ steps < MaxThreadSteps
    /\ threads' = [threads EXCEPT ![t] = [name |-> name, agent_id |-> agent_id,
                                          todo |-> todo, lines |-> <<>>]]
    /\ steps' = steps + 1
    /\ op' = [name |-> name, args |-> args]
    /\ ret' = NoValue
    /\ UNCHANGED <<now, live, agents, agents_file, _lock, raw_file, workflow, ticks, sessionVars, jobVars>>

thread_spawn_agent(t, personality, task_id) ==
    LET agent_id == <<personality, now>>
        agent_data == [id |-> agent_id,
                       personality |-> personality,
                       status |-> SPAWNING,
                       created_at |-> now,
                       updated_at |-> now,
                       current_task |-> task_id,
                       completed_tasks |-> <<>>,
                       thoughts |-> <<>>,
                       metrics |-> [tasks_completed |-> 0, success_rate |-> Rat(0, 1)]]
        spawning == {u \in Threads : threads[u].name = "spawn_agent"}
    IN /\ agent_id \notin Ids(agents[Shared])
       /\ Len(agents[Shared]) + Cardinality(spawning) < MaxAgents
       /\ Begin(t, "spawn_agent", <<personality, task_id>>, agent_id,
                spawn_agent_todo(agent_data))
       /\ UNCHANGED timers

\* a spawn thread wakes from its time.sleep(2) and calls update_agent_status
thread_complete_spawning(t, tm) ==
    /\ BagIn(tm, timers)
    /\ tm[1] = Shared
    /\ now >= tm[3]
    /\ tm[2] \in Ids(agents[Shared])
    /\ Begin(t, "complete_spawning", <<tm[2]>>, tm[2],
             update_agent_status_todo(agents[Shared], tm[2], IDLE,
                                      "Agent startup completed successfully", now))
    /\ timers' = timers (-) SetToBag({tm})

thread_assign_task(t, agent_id, task_id) ==
    /\ assign_task_ok(agents[Shared], agent_id)
    /\ Begin(t, "assign_task", <<agent_id, task_id>>, agent_id,
             assign_task_todo(agents[Shared], agent_id, task_id, now))
    /\ UNCHANGED timers

thread_update_agent_status(t, agent_id, status, thought) ==
    /\ agent_id \in Ids(agents[Shared])
    /\ Begin(t, "update_agent_status", <<agent_id, status, thought>>, agent_id,
             update_agent_status_todo(agents[Shared], agent_id, status, thought, now))
    /\ UNCHANGED timers

thread_complete_task(t, agent_id, success, notes) ==
    /\ agent_id \in Ids(agents[Shared])
    /\ Begin(t, "complete_task", <<agent_id, success, notes>>, agent_id,
             complete_task_todo(agents[Shared], agent_id, success, notes, now))
    /\ UNCHANGED timers

\* a micro step of thread t
Micro(t, name) ==
    /\ op' = [name |-> name, args |-> <<t>>]
    /\ ret' = NoValue
    /\ UNCHANGED <<now, live, steps, ticks, raw_file, workflow, sessionVars, jobVars>>

\* thread t changes the record of its agent in self.agents
thread_set(t) ==
    LET th == threads[t]
    IN /\ th.todo # <<>>
       /\ Head(th.todo).kind = "set"
       /\ agents' = [agents EXCEPT
                       ![Shared] = DictSet(@, th.agent_id, Head(th.todo).agent)]
       /\ threads' = [threads EXCEPT ![t].todo = Tail(@)]
       /\ Micro(t, "set")
       /\ UNCHANGED <<agents_file, timers, _lock>>

\* mutant: save_agent does not wait for the lock
lock_ignored(t) == TRUE

\* self._lock can be taken
lock_free(t) == _lock = {}

\* save_agent up to the open of the file: thread t takes the lock, stores the
\* record and builds the lines of the whole dict
thread_lock(t) ==
    LET th == threads[t]
        d == DictSet(agents[Shared], th.agent_id, Head(th.todo).agent)
    IN /\ th.todo # <<>>
       /\ Head(th.todo).kind = "save"
       /\ t \notin _lock
       /\ lock_free(t)
       /\ _lock' = _lock \cup {t}
       /\ agents' = [agents EXCEPT ![Shared] = d]
       /\ threads' = [threads EXCEPT ![t].lines = d]
       /\ Micro(t, "lock")
       /\ UNCHANGED <<agents_file, timers>>

\* the rest of save_agent: thread t writes its lines over the file and leaves
\* the lock; spawn_agent then starts its spawn thread, and after its last save
\* the operation returns
thread_write(t) ==
    LET th == threads[t]
        left == Tail(th.todo)
    IN /\ t \in _lock
       /\ agents_file' = th.lines
       /\ _lock' = _lock \ {t}
       /\ threads' = [threads EXCEPT
                        ![t] = IF left = <<>> THEN Resting
                               ELSE [th EXCEPT !.todo = left, !.lines = <<>>]]
       /\ timers' = IF th.name = "spawn_agent"
                    THEN timers (+) SetToBag({<<Shared, th.agent_id, now + SpawnDelay>>})
                    ELSE timers
       /\ Micro(t, "write")
       /\ UNCHANGED agents

NextThreads ==
    \/ \E t \in Threads, p \in PersonalityArgs : thread_spawn_agent(t, p, None)
    \/ \E t \in Threads : \E tm \in BagToSet(timers) : thread_complete_spawning(t, tm)
    \/ \E t \in Threads : \E a \in Ids(agents[Shared]), task \in TaskArgs :
           thread_assign_task(t, a, task)
    \/ \E t \in Threads : \E a \in Ids(agents[Shared]), s \in AgentStatus, th \in ThoughtArgs :
           thread_update_agent_status(t, a, s, th)
    \/ \E t \in Threads : \E a \in Ids(agents[Shared]), success \in BOOLEAN :
           thread_complete_task(t, a, success, "")
    \/ \E t \in Threads : thread_set(t)
    \/ \E t \in Threads : thread_lock(t)
    \/ \E t \in Threads : thread_write(t)
    \/ ticks < MaxThreadTicks /\ Tick(SpawnDelay)

SpecThreads == InitAgent /\ [][NextThreads]_vars

----------------------------------------------------------------------------
(* assign_task called by two threads of one instance on the same agent.      *)
(* Both threads hold the same dict self.agents[agent_id] and change it in    *)
(* place; only save_agent takes the lock.  A thread keeps the value its call *)
(* returned.                                                                  *)

\* agent["current_task"] = ...; agent["status"] = ...; agent["updated_at"] = ...
Patch(task_id, t) == [kind |-> "patch", task_id |-> task_id, at |-> t]

\* agent["thoughts"].append(thought_data), with the cut to the last 50
Log(thought) == [kind |-> "thought", thought |-> thought]

\* save_agent(agent_id, agent) with the dict that self.agents already holds
SaveSame == [kind |-> "save_same"]

\* return True
Return(task_id) == [kind |-> "return", task_id |-> task_id]

\* the value a thread has got back from assign_task(agent_id, task_id)
Result(task_id, value) == [kind |-> "result", task_id |-> task_id, value |-> value]

\* assign_task after its status test
assign_task_steps(task_id, t) ==
    <<Patch(task_id, t), Log(Thought(t, "Assigned new task", task_id, "")),
      SaveSame, SaveSame, Return(task_id)>>

\* mutant: the status test and the change of the agent are one step
assign_task_entered_alone(agent_id) ==
    \A u \in Threads : ~(threads[u].name = "assign_task" /\ threads[u].agent_id = agent_id)

\* a thread may enter assign_task whatever the other threads are doing
assign_task_entered(agent_id) == TRUE

\* thread t calls assign_task: the tests on the agent, which it passes or not.
\* The callers are taken once no other operation is under way.
race_assign_task(t, agent_id, task_id) ==
    LET ok == assign_task_ok(agents[Shared], agent_id)
    IN /\ threads[t] = Resting
       /\ steps < MaxRaceSteps
       /\ \A u \in Threads : threads[u].name \in {None, "assign_task", "returned"}
       /\ assign_task_entered(agent_id)
       /\ threads' = [threads EXCEPT
                        ![t] = IF ok
                               THEN [name |-> "assign_task", agent_id |-> agent_id,
                                     todo |-> assign_task_steps(task_id, now),
                                     lines |-> <<>>]
                               ELSE [name |-> "returned", agent_id |-> agent_id,
                                     todo |-> <<Result(task_id, FALSE)>>,
                                     lines |-> <<>>]]
       /\ steps' = steps + 1
       /\ op' = [name |-> "assign_task", args |-> <<Shared, agent_id, task_id>>]
       /\ ret' = NoValue
       /\ UNCHANGED <<now, live, agents, agents_file, timers, _lock, raw_file, workflow,
                      ticks, sessionVars, jobVars>>

\* thread t sets current_task, status and updated_at of the dict it holds
race_patch(t) ==
    LET th == threads[t]
        agent == Get(agents[Shared], th.agent_id)
    IN /\ th.todo # <<>>
       /\ Head(th.todo).kind = "patch"
       /\ agents' = [agents EXCEPT
                       ![Shared] = DictSet(@, th.agent_id,
                                           [agent EXCEPT
                                              !.current_task = Head(th.todo).task_id,
                                              !.status = WORKING,
                                              !.updated_at = Head(th.todo).at])]
       /\ threads' = [threads EXCEPT ![t].todo = Tail(@)]
       /\ Micro(t, "patch")
       /\ UNCHANGED <<agents_file, timers, _lock>>

\* thread t appends its thought to the dict it holds
race_thought(t) ==
    LET th == threads[t]
    IN /\ th.todo # <<>>
       /\ Head(th.todo).kind = "thought"
       /\ agents' = [agents EXCEPT
                       ![Shared] = add_agent_thought(@, th.agent_id, now,
                                                     Head(th.todo).thought)]
       /\ threads' = [threads EXCEPT ![t].todo = Tail(@)]
       /\ Micro(t, "thought")
       /\ UNCHANGED <<agents_file, timers, _lock>>

\* save_agent up to the open of the file, for a dict that is already stored
race_lock(t) ==
    LET th == threads[t]
    IN /\ th.todo # <<>>
       /\ Head(th.todo).kind = "save_same"
       /\ t \notin _lock
       /\ lock_free(t)
       /\ _lock' = _lock \cup {t}
       /\ threads' = [threads EXCEPT ![t].lines = agents[Shared]]
       /\ Micro(t, "lock")
       /\ UNCHANGED <<agents, agents_file, timers>>

\* thread t returns True from assign_task
race_return(t) ==
    LET th == threads[t]
    IN /\ th.todo # <<>>
       /\ Head(th.todo).kind = "return"
       /\ threads' = [threads EXCEPT
                        ![t] = [name |-> "returned", agent_id |-> th.agent_id,
                                todo |-> <<Result(Head(th.todo).task_id, TRUE)>>,
                                lines |-> <<>>]]
       /\ Micro(t, "return")
       /\ UNCHANGED <<agents, agents_file, timers, _lock>>

NextRace ==
    \/ \E t \in Threads, p \in PersonalityArgs : thread_spawn_agent(t, p, None)
    \/ \E t \in Threads : \E tm \in BagToSet(timers) : thread_complete_spawning(t, tm)
    \/ \E t \in Threads : \E a \in Ids(agents[Shared]), task \in TaskArgs :
           race_assign_task(t, a, task)
    \/ \E t \in Threads : race_patch(t)
    \/ \E t \in Threads : race_thought(t)
    \/ \E t \in Threads : thread_set(t)
    \/ \E t \in Threads : thread_lock(t)
    \/ \E t \in Threads : race_lock(t)
    \/ \E t \in Threads : thread_write(t)
    \/ \E t \in Threads : race_return(t)
    \/ ticks < MaxThreadTicks /\ Tick(SpawnDelay)

SpecRace == InitAgent /\ [][NextRace]_vars

----------------------------------------------------------------------------
(* TimeTracker: every command loads the sessions file, acts on the first     *)
(* record whose session_id matches, and writes the whole file back           *)

\* an optional number that is not set (JSON null)
NotSet == -1

JobArgs == {"job1", "job2"}
NotesArgs == {"done"}
SessionTickSteps == {5, 10}

SessionIds(ss) == {ss[i].session_id : i \in 1..Len(ss)}

\* the index at which the for loop over the loaded sessions finds session_id
FirstIndex(ss, session_id) ==
    CHOOSE i \in 1..Len(ss) :
        /\ ss[i].session_id = session_id
        /\ \A j \in 1..(i - 1) : ss[j].session_id # session_id

\* mutant: the open pause is closed but its length is not added to paused_time
_apply_resume_untimed(session, t) ==
    LET n == Len(session.pauses)
        closing == n > 0 /\ session.pauses[n].pause_end = NotSet
        s1 == IF closing
              THEN [session EXCEPT !.pauses[n].pause_end = t]
              ELSE session
    IN [s1 EXCEPT !.status = "active"]

_apply_resume(session, t) ==
    LET n == Len(session.pauses)
        closing == n > 0 /\ session.pauses[n].pause_end = NotSet
        s1 == IF closing
              THEN [session EXCEPT
                      !.pauses[n].pause_end = t,
                      !.paused_time = @ + (t - session.pauses[n].pause_start)]
              ELSE session
    IN [s1 EXCEPT !.status = "active"]

SessionCall(name, args, result) ==
    /\ steps < MaxSessionSteps
    /\ Call(name, args, result)
    /\ UNCHANGED <<now, agentVars, jobVars, ticks, loaded>>

\* mutant: a start cancels the active sessions the job already has
start_session_exclusive(job_id, agent, description) ==
    LET session_id == <<job_id, now>>
        session == [session_id |-> session_id,
                    job_id |-> job_id,
                    agent |-> agent,
                    description |-> description,
                    status |-> "active",
                    start_time |-> now,
                    start_timestamp |-> now,
                    end_time |-> NotSet,
                    end_timestamp |-> NotSet,
                    duration_seconds |-> NotSet,
                    paused_time |-> 0,
                    pauses |-> <<>>,
                    notes |-> "",
                    created_at |-> now]
        kept == [i \in 1..Len(sessions_file) |->
                    IF sessions_file[i].job_id = job_id /\ sessions_file[i].status = "active"
                    THEN [sessions_file[i] EXCEPT !.status = "cancelled"]
                    ELSE sessions_file[i]]
    IN /\ Len(sessions_file) < MaxSessions
       /\ SessionCall("start_session", <<job_id>>, session_id)
       /\ sessions_file' = Append(kept, session)

start_session(job_id, agent, description) ==
    LET session_id == <<job_id, now>>
        session == [session_id |-> session_id,
                    job_id |-> job_id,
                    agent |-> agent,
                    description |-> description,
                    status |-> "active",
                    start_time |-> now,
                    start_timestamp |-> now,
                    end_time |-> NotSet,
                    end_timestamp |-> NotSet,
                    duration_seconds |-> NotSet,
                    paused_time |-> 0,
                    pauses |-> <<>>,
                    notes |-> "",
                    created_at |-> now]
    IN /\ Len(sessions_file) < MaxSessions
       /\ SessionCall("start_session", <<job_id>>, session_id)
       /\ sessions_file' = Append(sessions_file, session)

\* the status checks that make a command print [ERR] and return False
\* mutant: end_session accepts a session in any status
end_refused_never(s) == FALSE

end_refused(s) == s.status # "active"

\* mutant: pause_session accepts a session that is already paused
pause_refused_unless_ended(s) == s.status \notin {"active", "paused"}

pause_refused(s) == s.status # "active"

resume_refused(s) == s.status # "paused"

\* mutant: cancel_session accepts a completed session
cancel_refused_never(s) == FALSE

cancel_refused(s) == s.status = "completed"

\* mutant: the paused time is not subtracted
ended_wall_time(s, notes, t) ==
    [s EXCEPT !.status = "completed",
              !.end_time = t,
              !.end_timestamp = t,
              !.duration_seconds = t - s.start_timestamp,
              !.notes = notes]

\* mutant: end_timestamp is not stored
ended_unstamped(s, notes, t) ==
    [s EXCEPT !.status = "completed",
              !.end_time = t,
              !.duration_seconds = t - s.start_timestamp - s.paused_time,
              !.notes = notes]

\* the record end_session writes for a session it accepts
ended(s, notes, t) ==
    [s EXCEPT !.status = "completed",
              !.end_time = t,
              !.end_timestamp = t,
              !.duration_seconds = t - s.start_timestamp - s.paused_time,
              !.notes = notes]

\* mutant: pause_session sets the status and appends no pause record
paused_without_record(s, t) == [s EXCEPT !.status = "paused"]

\* the record pause_session writes for a session it accepts
paused(s, t) ==
    [s EXCEPT !.status = "paused",
              !.pauses = Append(@, [pause_start |-> t, pause_end |-> NotSet])]

\* mutant: cancel_session also stamps end_timestamp
cancelled_stamped(s, t) ==
    [s EXCEPT !.status = "cancelled", !.end_time = t, !.end_timestamp = t]

\* the record cancel_session writes for a session it accepts
cancelled(s, t) == [s EXCEPT !.status = "cancelled", !.end_time = t]

\* What a command does with the sessions it loaded, at time t: the value it
\* returns and, when that is True, the list it saves.
end_session_on(ss, session_id, notes, t) ==
    IF session_id \notin SessionIds(ss)
    THEN [ok |-> FALSE, sessions |-> ss]
    ELSE LET i == FirstIndex(ss, session_id)
             s0 == ss[i]
             s == IF s0.status = "paused" THEN _apply_resume(s0, t) ELSE s0
         IN IF end_refused(s)
            THEN [ok |-> FALSE, sessions |-> ss]
            ELSE [ok |-> TRUE, sessions |-> [ss EXCEPT ![i] = ended(s, notes, t)]]

pause_session_on(ss, session_id, t) ==
    IF session_id \notin SessionIds(ss)
    THEN [ok |-> FALSE, sessions |-> ss]
    ELSE LET i == FirstIndex(ss, session_id)
             s == ss[i]
         IN IF pause_refused(s)
            THEN [ok |-> FALSE, sessions |-> ss]
            ELSE [ok |-> TRUE, sessions |-> [ss EXCEPT ![i] = paused(s, t)]]

resume_session_on(ss, session_id, t) ==
    IF session_id \notin SessionIds(ss)
    THEN [ok |-> FALSE, sessions |-> ss]
    ELSE LET i == FirstIndex(ss, session_id)
             s == ss[i]
         IN IF resume_refused(s)
            THEN [ok |-> FALSE, sessions |-> ss]
            ELSE [ok |-> TRUE, sessions |-> [ss EXCEPT ![i] = _apply_resume(s, t)]]

cancel_session_on(ss, session_id, t) ==
    IF session_id \notin SessionIds(ss)
    THEN [ok |-> FALSE, sessions |-> ss]
    ELSE LET i == FirstIndex(ss, session_id)
             s == ss[i]
         IN IF cancel_refused(s)
            THEN [ok |-> FALSE, sessions |-> ss]
            ELSE [ok |-> TRUE, sessions |-> [ss EXCEPT ![i] = cancelled(s, t)]]

\* One command run alone: load, act and save without another caller in between.
end_session(session_id, notes) ==
    LET r == end_session_on(sessions_file, session_id, notes, now)
    IN /\ SessionCall("end_session", <<session_id>>, r.ok)
       /\ sessions_file' = r.sessions

pause_session(session_id) ==
    LET r == pause_session_on(sessions_file, session_id, now)
    IN /\ SessionCall("pause_session", <<session_id>>, r.ok)
       /\ sessions_file' = r.sessions

resume_session(session_id) ==
    LET r == resume_session_on(sessions_file, session_id, now)
    IN /\ SessionCall("resume_session", <<session_id>>, r.ok)
       /\ sessions_file' = r.sessions

cancel_session(session_id) ==
    LET r == cancel_session_on(sessions_file, session_id, now)
    IN /\ SessionCall("cancel_session", <<session_id>>, r.ok)
       /\ sessions_file' = r.sessions

InitSession ==
    /\ now = 0
    /\ live = {}
    /\ agents = [m \in Managers |-> <<>>]
    /\ agents_file = <<>>
    /\ timers = EmptyBag
    /\ threads = [t \in Threads |-> Resting]
    /\ _lock = {}
    /\ raw_file = NoFile
    /\ workflow = NoWorkflow
    /\ op = [name |-> "init", args |-> <<>>]
    /\ ret = NoValue
    /\ steps = 0
    /\ ticks = 0
    /\ sessions_file = <<>>
    /\ loaded = [c \in Callers |-> Idle]
    /\ jobs = <<>>
    /\ walk = NoWalk

\* Python truthiness of an optional number
TruthyNumber(x) == x # NotSet /\ x # 0

RECURSIVE SumOf(_, _)
\* the total of field f over the sessions ss
SumOf(ss, f) == IF ss = <<>> THEN 0 ELSE Head(ss)[f] + SumOf(Tail(ss), f)

_calculate_job_time(ss, job_id, t) ==
    LET sessions == SelectSeq(ss, LAMBDA s : s.job_id = job_id)
        counted(s) == s.status = "completed" /\ TruthyNumber(s.duration_seconds)
        completed == SelectSeq(sessions, counted)
        active == SelectSeq(sessions, LAMBDA s : ~counted(s) /\ s.status = "active")
    IN [job_id |-> job_id,
        total_seconds |-> SumOf(completed, "duration_seconds")
                          + Len(active) * t
                          - SumOf(active, "start_timestamp")
                          - SumOf(active, "paused_time"),
        completed_sessions |-> Len(completed),
        active_sessions |-> Len(active)]

\* the command "job <job_id>"
job_time(job_id) ==
    /\ op' = [name |-> "_calculate_job_time", args |-> <<job_id>>]
    /\ ret' = _calculate_job_time(sessions_file, job_id, now)
    /\ UNCHANGED <<now, agentVars, sessionVars, jobVars, steps, ticks>>

SessionArgs == SessionIds(sessions_file) \cup {UnknownSession}

NextSession ==
    \/ \E j \in JobArgs : start_session(j, "agent1", "")
    \/ \E sid \in SessionArgs, n \in NotesArgs : end_session(sid, n)
    \/ \E sid \in SessionArgs : pause_session(sid)
    \/ \E sid \in SessionArgs : resume_session(sid)
    \/ \E sid \in SessionArgs : cancel_session(sid)
    \/ \E j \in JobArgs : job_time(j)
    \/ \E d \in SessionTickSteps : ticks < MaxSessionTicks /\ Tick(d)

SpecSession == InitSession /\ [][NextSession]_vars

----------------------------------------------------------------------------
(* TimeTracker commands of several callers on one sessions file.  The code    *)
(* takes no lock: a command reads the file (_load_sessions), and later, if    *)
(* it accepts the session, rewrites the whole file from what it read          *)
(* (_save_sessions); start_session appends one line.                          *)

MutatingCommands == {"end_session", "pause_session", "resume_session", "cancel_session"}

command_on(c, t) ==
    CASE c.name = "end_session" -> end_session_on(c.sessions, c.session_id, c.notes, t)
      [] c.name = "pause_session" -> pause_session_on(c.sessions, c.session_id, t)
      [] c.name = "resume_session" -> resume_session_on(c.sessions, c.session_id, t)
      [] c.name = "cancel_session" -> cancel_session_on(c.sessions, c.session_id, t)

\* sessions = self._load_sessions(), the first statement of a command
_load_sessions(c, name, session_id, notes) ==
    /\ steps < MaxConcSteps
    /\ loaded[c].name = None
    /\ loaded' = [loaded EXCEPT ![c] = [name |-> name,
                                        session_id |-> session_id,
                                        notes |-> notes,
                                        sessions |-> sessions_file]]
    /\ UNCHANGED <<now, agentVars, jobVars, sessions_file, op, ret, steps, ticks>>

\* the rest of the command: the status check, the change of the loaded record at
\* the current time, self._save_sessions(sessions) and the return
_save_sessions(c) ==
    LET r == command_on(loaded[c], now)
    IN /\ loaded[c].name # None
       /\ Call(loaded[c].name, <<loaded[c].session_id>>, r.ok)
       /\ sessions_file' = IF r.ok THEN r.sessions ELSE sessions_file
       /\ loaded' = [loaded EXCEPT ![c] = Idle]
       /\ UNCHANGED <<now, agentVars, jobVars, ticks>>

NextSessionConc ==
    \/ \E j \in JobArgs : steps < MaxConcSteps /\ start_session(j, "agent1", "")
    \/ \E c \in Callers, name \in MutatingCommands, sid \in SessionArgs, n \in NotesArgs :
           _load_sessions(c, name, sid, n)
    \/ \E c \in Callers : _save_sessions(c)
    \/ \E d \in SessionTickSteps : ticks < MaxConcTicks /\ Tick(d)

SpecSessionConc == InitSession /\ [][NextSessionConc]_vars

----------------------------------------------------------------------------
(* job_tools: pure functions of the job list that load_jobs returns.  The    *)
(* jobs file is written by other tools, so the list starts as up to MaxJobs  *)
(* fresh jobs and changes by single-field edits.                             *)

JobIds == <<"A", "B", "C", "D">>
MissingJob == "X"
JobStatus == {"pending", "in_progress", "completed", "cancelled"}
PriorityArgs == {"high", "medium", "low", "urgent"}
AssigneeArgs == {"agent1", "agent2"}
CreatedArgs == {0, 1, 2}

NewJob(i) == [id |-> JobIds[i],
              title |-> JobIds[i],
              status |-> "pending",
              priority |-> "medium",
              created_at |-> 1,
              dependencies |-> <<>>,
              assignee |-> None]

JobIdSet(js) == {js[i].id : i \in 1..Len(js)}

\* deps = {job['id']: job.get('dependencies', [])}
DepsOf(js, id) == js[CHOOSE i \in 1..Len(js) : js[i].id = id].dependencies

Concat(a, b) == a \o b

\* visit(job_id, visited, path): ok, and the cycle it printed if not ok
RECURSIVE visit(_, _, _, _), visit_deps(_, _, _, _)
\* mutant: the dependencies are marked as visited before they are walked
visit_marks_deps(js, job_id, visited, path) ==
    IF job_id \in visited
    THEN [ok |-> FALSE, printed |-> <<Append(path, job_id)>>]
    ELSE IF job_id \notin JobIdSet(js)
    THEN [ok |-> TRUE, printed |-> <<>>]
    ELSE visit_deps(js, DepsOf(js, job_id),
                    visited \cup {job_id} \cup {DepsOf(js, job_id)[n] : n \in 1..Len(DepsOf(js, job_id))},
                    Append(path, job_id))

visit(js, job_id, visited, path) ==
    IF job_id \in visited
    THEN [ok |-> FALSE, printed |-> <<Append(path, job_id)>>]
    ELSE IF job_id \notin JobIdSet(js)
    THEN [ok |-> TRUE, printed |-> <<>>]
    ELSE visit_deps(js, DepsOf(js, job_id), visited \cup {job_id}, Append(path, job_id))

\* mutant: only the result for the last dependency is returned
RECURSIVE visit_deps_last(_, _, _, _)
visit_deps_last(js, deps, visited, path) ==
    IF deps = <<>> THEN [ok |-> TRUE, printed |-> <<>>]
    ELSE IF Len(deps) = 1 THEN visit(js, Head(deps), visited, path)
    ELSE visit_deps_last(js, Tail(deps), visited, path)

\* for dep in deps[job_id]: if not visit(dep, visited.copy(), path.copy()): return False
visit_deps(js, deps, visited, path) ==
    IF deps = <<>> THEN [ok |-> TRUE, printed |-> <<>>]
    ELSE LET r == visit(js, Head(deps), visited, path)
         IN IF ~r.ok THEN r ELSE visit_deps(js, Tail(deps), visited, path)

\* for job_id in deps: if not visit(job_id, set(), []): valid = False
RECURSIVE visit_roots(_, _)
visit_roots(js, k) ==
    IF k > Len(js) THEN <<>>
    ELSE Concat(visit(js, js[k].id, {}, <<>>).printed, visit_roots(js, k + 1))

RECURSIVE missing_of(_, _, _)
missing_of(js, job_id, deps) ==
    IF deps = <<>> THEN <<>>
    ELSE Concat(IF Head(deps) \notin JobIdSet(js) THEN <<<<job_id, Head(deps)>>>> ELSE <<>>,
                missing_of(js, job_id, Tail(deps)))

\* mutant: only the dependencies of the first job are looked up
missing_deps_first(js, k) ==
    IF js = <<>> THEN <<>> ELSE missing_of(js, js[1].id, js[1].dependencies)

RECURSIVE missing_deps(_, _)
missing_deps(js, k) ==
    IF k > Len(js) THEN <<>>
    ELSE Concat(missing_of(js, js[k].id, js[k].dependencies), missing_deps(js, k + 1))

validate_dependencies_result(js) ==
    IF js = <<>> THEN [ok |-> TRUE, cycles |-> <<>>, missing |-> <<>>]
    ELSE LET cycles == visit_roots(js, 1)
             missing == missing_deps(js, 1)
         IN [ok |-> cycles = <<>> /\ missing = <<>>, cycles |-> cycles, missing |-> missing]

priority_order(p) ==
    CASE p = "high" -> 0
      [] p = "medium" -> 1
      [] p = "low" -> 2
      [] OTHER -> 3

\* mutant: the sort key is the priority rank alone
KeyLess_by_rank(a, b) == priority_order(a.priority) < priority_order(b.priority)

\* the sort key (priority_order.get(priority, 3), created_at), compared as a tuple
KeyLess(a, b) ==
    \/ priority_order(a.priority) < priority_order(b.priority)
    \/ /\ priority_order(a.priority) = priority_order(b.priority)
       /\ a.created_at < b.created_at

\* list.sort is stable: an element goes after every element that is not greater
RECURSIVE insert_sorted(_, _)
insert_sorted(sorted, j) ==
    IF sorted = <<>> THEN <<j>>
    ELSE IF KeyLess(j, Head(sorted)) THEN <<j>> \o sorted
    ELSE <<Head(sorted)>> \o insert_sorted(Tail(sorted), j)

RECURSIVE stable_sort(_)
stable_sort(js) ==
    IF js = <<>> THEN <<>>
    ELSE insert_sorted(stable_sort(SubSeq(js, 1, Len(js) - 1)), js[Len(js)])

\* mutant: any() instead of all()
all_deps_completed_any(js, job) ==
    LET completed_jobs == {js[i].id : i \in {k \in 1..Len(js) : js[k].status = "completed"}}
    IN \/ job.dependencies = <<>>
       \/ \E n \in 1..Len(job.dependencies) : job.dependencies[n] \in completed_jobs

all_deps_completed(js, job) ==
    LET completed_jobs == {js[i].id : i \in {k \in 1..Len(js) : js[k].status = "completed"}}
    IN \A n \in 1..Len(job.dependencies) : job.dependencies[n] \in completed_jobs

suggest_next_jobs_result(js) ==
    LET pending_jobs == SelectSeq(js, LAMBDA j : j.status = "pending")
        ready_jobs == SelectSeq(pending_jobs, LAMBDA j : all_deps_completed(js, j))
    IN stable_sort(ready_jobs)

\* mutant: a job of any status counts for its assignee
assigned_any_status(j) == Truthy(j.assignee)

\* job['status'] == 'pending' and job.get('assignee')
pending_assigned(j) == j.status = "pending" /\ Truthy(j.assignee)

\* agent_assignments[agent]: the pending jobs of the agent, in the order of the list
assigned_jobs(js, agent) ==
    SelectSeq(js, LAMBDA j : pending_assigned(j) /\ j.assignee = agent)

\* the keys of agent_assignments, in the order in which the loop inserts them
RECURSIVE assigned_agents(_, _)
assigned_agents(js, k) ==
    IF k = 0 THEN <<>>
    ELSE LET before == assigned_agents(js, k - 1)
         IN IF pending_assigned(js[k]) /\ \A n \in 1..Len(before) : before[n] # js[k].assignee
            THEN Append(before, js[k].assignee)
            ELSE before

\* the place of a priority among the priorities as Python orders strings
StrRank(p) ==
    CASE p = "high" -> 0
      [] p = "low" -> 1
      [] p = "medium" -> 2
      [] p = "urgent" -> 3

\* sorted(assigned_jobs, key=lambda j: j['priority']): stable, on the priority string
RECURSIVE insert_by_str(_, _)
insert_by_str(sorted, j) ==
    IF sorted = <<>> THEN <<j>>
    ELSE IF StrRank(j.priority) < StrRank(Head(sorted).priority) THEN <<j>> \o sorted
    ELSE <<Head(sorted)>> \o insert_by_str(Tail(sorted), j)

RECURSIVE sorted_by_str(_)
sorted_by_str(js) ==
    IF js = <<>> THEN <<>>
    ELSE insert_by_str(sorted_by_str(SubSeq(js, 1, Len(js) - 1)), js[Len(js)])

\* the conflict appended for an agent with more than one pending job
agent_overload(js, agent) ==
    LET assigned == assigned_jobs(js, agent)
        sorted_jobs == sorted_by_str(assigned)
    IN [type |-> "agent_overload",
        agent |-> agent,
        conflicts |-> assigned,
        suggestion |-> [title |-> sorted_jobs[1].title, priority |-> sorted_jobs[1].priority],
        jobs_to_reassign |-> Tail(assigned)]

RECURSIVE conflicts_of(_, _)
conflicts_of(js, agent_list) ==
    IF agent_list = <<>> THEN <<>>
    ELSE Concat(IF Len(assigned_jobs(js, Head(agent_list))) > 1
                THEN <<agent_overload(js, Head(agent_list))>>
                ELSE <<>>,
                conflicts_of(js, Tail(agent_list)))

generate_conflict_resolution_result(js) ==
    IF js = <<>> THEN <<>> ELSE conflicts_of(js, assigned_agents(js, Len(js)))

\* job.get('assignee') and job['status'] in ['in_progress', 'pending']
in_workload(j) == Truthy(j.assignee) /\ j.status \in {"in_progress", "pending"}

\* the keys of agent_workload, in the order in which the loop inserts them
RECURSIVE workload_agents(_, _)
workload_agents(js, k) ==
    IF k = 0 THEN <<>>
    ELSE LET before == workload_agents(js, k - 1)
         IN IF in_workload(js[k]) /\ \A n \in 1..Len(before) : before[n] # js[k].assignee
            THEN Append(before, js[k].assignee)
            ELSE before

\* agent_workload[agent]
agent_workload(js, agent) ==
    Len(SelectSeq(js, LAMBDA j : in_workload(j) /\ j.assignee = agent))

\* what auto_assign_jobs prints: for each of the first five unassigned pending jobs
\* the first agent among those with the lowest workload
auto_assign_jobs_result(js) ==
    LET agent_list == workload_agents(js, Len(js))
        available_agents ==
            SelectSeq(agent_list,
                      LAMBDA a : \A n \in 1..Len(agent_list) :
                                     agent_workload(js, a) <= agent_workload(js, agent_list[n]))
        unassigned_jobs == SelectSeq(js, LAMBDA j : j.status = "pending" /\ ~Truthy(j.assignee))
        shown == IF Len(unassigned_jobs) > 5 THEN SubSeq(unassigned_jobs, 1, 5)
                 ELSE unassigned_jobs
        suggested_agent == IF available_agents # <<>> THEN available_agents[1] ELSE "unassigned"
    IN [n \in 1..Len(shown) |-> [title |-> shown[n].title,
                                 agent |-> suggested_agent,
                                 priority |-> shown[n].priority]]

JobCall(name, result) ==
    /\ op' = [name |-> name, args |-> <<>>]
    /\ ret' = result
    /\ UNCHANGED <<now, agentVars, sessionVars, ticks>>

validate_dependencies ==
    /\ JobCall("validate_dependencies", validate_dependencies_result(jobs))
    /\ UNCHANGED <<jobs, walk, steps>>

\* mutant: the ready jobs are written back as started
suggest_next_jobs_starting ==
    LET ready == suggest_next_jobs_result(jobs)
    IN /\ JobCall("suggest_next_jobs", ready)
       /\ UNCHANGED walk
       /\ jobs' = [i \in 1..Len(jobs) |->
                      IF \E k \in 1..Len(ready) : ready[k].id = jobs[i].id
                      THEN [jobs[i] EXCEPT !.status = "in_progress"]
                      ELSE jobs[i]]
       /\ UNCHANGED steps

suggest_next_jobs ==
    /\ JobCall("suggest_next_jobs", suggest_next_jobs_result(jobs))
    /\ UNCHANGED <<jobs, walk, steps>>

generate_conflict_resolution ==
    /\ JobCall("generate_conflict_resolution", generate_conflict_resolution_result(jobs))
    /\ UNCHANGED <<jobs, walk, steps>>

auto_assign_jobs ==
    /\ JobCall("auto_assign_jobs", auto_assign_jobs_result(jobs))
    /\ UNCHANGED <<jobs, walk, steps>>

\* another tool rewrites one field of one line of jobs.jsonl
EditJob(i, field, value) ==
    /\ steps < MaxEdits
    /\ steps' = steps + 1
    /\ jobs[i][field] # value
    /\ jobs' = [jobs EXCEPT ![i][field] = value]
    /\ UNCHANGED walk
    /\ JobCall("edit", NoValue)

AddDependency(i, dep) ==
    /\ steps < MaxEdits
    /\ steps' = steps + 1
    /\ Len(jobs[i].dependencies) < MaxDeps
    /\ jobs' = [jobs EXCEPT ![i].dependencies = Append(@, dep)]
    /\ UNCHANGED walk
    /\ JobCall("edit", NoValue)

InitJobs ==
    /\ now = 0
    /\ live = {}
    /\ agents = [m \in Managers |-> <<>>]
    /\ agents_file = <<>>
    /\ timers = EmptyBag
    /\ threads = [t \in Threads |-> Resting]
    /\ _lock = {}
    /\ raw_file = NoFile
    /\ workflow = NoWorkflow
    /\ op = [name |-> "init", args |-> <<>>]
    /\ ret = NoValue
    /\ steps = 0
    /\ ticks = 0
    /\ sessions_file = <<>>
    /\ loaded = [c \in Callers |-> Idle]
    /\ \E n \in 0..MaxJobs : jobs = [i \in 1..n |-> NewJob(i)]
    /\ walk = NoWalk

NextJobs ==
    \/ validate_dependencies
    \/ suggest_next_jobs
    \/ generate_conflict_resolution
    \/ auto_assign_jobs
    \/ \E i \in 1..Len(jobs), v \in JobStatus : EditJob(i, "status", v)
    \/ \E i \in 1..Len(jobs), v \in PriorityArgs : EditJob(i, "priority", v)
    \/ \E i \in 1..Len(jobs), v \in AssigneeArgs : EditJob(i, "assignee", v)
    \/ \E i \in 1..Len(jobs), v \in CreatedArgs : EditJob(i, "created_at", v)
    \/ \E i \in 1..Len(jobs), d \in JobIdSet(jobs) \cup {MissingJob} : AddDependency(i, d)

SpecJobs == InitJobs /\ [][NextJobs]_vars

----------------------------------------------------------------------------
(* validate_dependencies statement by statement: the loop over the jobs and  *)
(* the calls of visit, each with its own copy of visited and path.           *)

WalkIds == {JobIds[i] : i \in 1..MaxWalkJobs} \cup {MissingJob}

\* the dependency lists a job of the walked file may have
WalkDeps == UNION {[1..l -> WalkIds] : l \in 0..MaxWalkDeps}

\* a call visit(job_id, visited, path) that has not run its first statement
Frame(job_id, visited, path) ==
    [job_id |-> job_id, visited |-> visited, path |-> path, todo |-> <<>>,
     entered |-> FALSE]

\* mutant: a job id that is on the path already is walked again
visit_seen_never(frame) == FALSE

\* if job_id in visited
visit_seen(frame) == frame.job_id \in frame.visited

Top == walk.stack[Len(walk.stack)]

Pop(stack) == SubSeq(stack, 1, Len(stack) - 1)

WalkStep(name) ==
    /\ op' = [name |-> name, args |-> <<>>]
    /\ UNCHANGED <<now, agentVars, sessionVars, jobs, ret, steps, ticks>>

\* jobs = load_jobs(); if not jobs: return True; deps = {...}
validate_start ==
    /\ walk.k = 0
    /\ ~walk.done
    /\ walk' = IF jobs = <<>> THEN [walk EXCEPT !.done = TRUE] ELSE [walk EXCEPT !.k = 1]
    /\ WalkStep("validate_start")

\* for job_id in deps: ... visit(job_id, set(), [])
visit_root ==
    /\ walk.k \in 1..Len(jobs)
    /\ walk.stack = <<>>
    /\ ~walk.pending
    /\ walk' = [walk EXCEPT !.stack = <<Frame(jobs[walk.k].id, {}, <<>>)>>]
    /\ WalkStep("visit_root")

\* if not visit(job_id, set(), []): valid = False
visit_root_returned ==
    /\ walk.stack = <<>>
    /\ walk.pending
    /\ walk' = [walk EXCEPT !.valid = @ /\ walk.returned,
                            !.pending = FALSE,
                            !.k = @ + 1]
    /\ WalkStep("visit_root_returned")

\* the two tests of visit, then visited.add(job_id) and path.append(job_id)
visit_enter ==
    /\ walk.stack # <<>>
    /\ ~Top.entered
    /\ LET n == Len(walk.stack)
       IN walk' = IF visit_seen(Top)
                  THEN [walk EXCEPT !.stack = Pop(@), !.pending = TRUE, !.returned = FALSE]
                  ELSE IF Top.job_id \notin JobIdSet(jobs)
                  THEN [walk EXCEPT !.stack = Pop(@), !.pending = TRUE, !.returned = TRUE]
                  ELSE [walk EXCEPT !.stack[n] =
                                       [Top EXCEPT !.entered = TRUE,
                                                   !.visited = @ \cup {Top.job_id},
                                                   !.path = Append(@, Top.job_id),
                                                   !.todo = DepsOf(jobs, Top.job_id)]]
    /\ WalkStep("visit_enter")

\* for dep in deps[job_id]: visit(dep, visited.copy(), path.copy()), or return True
visit_next ==
    /\ walk.stack # <<>>
    /\ Top.entered
    /\ ~walk.pending
    /\ LET n == Len(walk.stack)
       IN IF Top.todo = <<>>
          THEN walk' = [walk EXCEPT !.stack = Pop(@), !.pending = TRUE, !.returned = TRUE]
          ELSE /\ n < MaxVisitDepth
               /\ walk' = [walk EXCEPT
                             !.stack = Append([@ EXCEPT ![n].todo = Tail(@)],
                                              Frame(Head(Top.todo), Top.visited, Top.path))]
    /\ WalkStep("visit_next")

\* if not visit(...): return False
visit_returned ==
    /\ walk.stack # <<>>
    /\ Top.entered
    /\ walk.pending
    /\ walk' = IF walk.returned
               THEN [walk EXCEPT !.pending = FALSE]
               ELSE [walk EXCEPT !.stack = Pop(@)]
    /\ WalkStep("visit_returned")

\* the check for missing dependencies and return valid
validate_finish ==
    /\ walk.k = Len(jobs) + 1
    /\ walk.stack = <<>>
    /\ ~walk.pending
    /\ ~walk.done
    /\ walk' = [walk EXCEPT !.valid = @ /\ missing_deps(jobs, 1) = <<>>, !.done = TRUE]
    /\ WalkStep("validate_finish")

InitWalk ==
    /\ now = 0
    /\ live = {}
    /\ agents = [m \in Managers |-> <<>>]
    /\ agents_file = <<>>
    /\ timers = EmptyBag
    /\ threads = [t \in Threads |-> Resting]
    /\ _lock = {}
    /\ raw_file = NoFile
    /\ workflow = NoWorkflow
    /\ op = [name |-> "init", args |-> <<>>]
    /\ ret = NoValue
    /\ steps = 0
    /\ ticks = 0
    /\ sessions_file = <<>>
    /\ loaded = [c \in Callers |-> Idle]
    /\ \E n \in 0..MaxWalkJobs : \E deps \in [1..n -> WalkDeps] :
           jobs = [i \in 1..n |-> [NewJob(i) EXCEPT !.dependencies = deps[i]]]
    /\ walk = NoWalk

NextWalk ==
    \/ validate_start
    \/ visit_root
    \/ visit_root_returned
    \/ visit_enter
    \/ visit_next
    \/ visit_returned
    \/ validate_finish

\* the interpreter runs the next statement of the one thread there is
SpecWalk == InitWalk /\ [][NextWalk]_vars /\ WF_vars(NextWalk)

----------------------------------------------------------------------------
(* The loaders of the three record files.  A file is a list of text lines;   *)
(* a line is blank, a well-formed record, text that is not JSON, or a single  *)
(* word without a space.  A loader returns the records it read, or is ended   *)
(* by an exception it does not catch.                                         *)

FileKinds == {"agents", "jobs", "sessions"}

RecordArgs == {[id |-> "r1"], [id |-> "r2"]}

NoRecord == [id |-> ""]

\* the lines a file can hold
Lines ==
    {[kind |-> "record", value |-> r] : r \in RecordArgs}
    \cup {[kind |-> k, value |-> NoRecord] : k \in {"blank", "garbage", "word"}}

\* json.loads(line) succeeds
parses(line) == line.kind = "record"

\* for line in f: skip the blank lines and, with a warning, the lines that
\* json.loads rejects
json_lines(lines) ==
    LET kept == SelectSeq(lines, LAMBDA l : l.kind # "blank" /\ parses(l))
    IN [n \in 1..Len(kept) |-> kept[n].value]

Loaded(records) == [aborted |-> FALSE, records |-> records]

\* the exception leaves the loader
Aborted == [aborted |-> TRUE, records |-> <<>>]

\* load_jobs() of job_tools
load_jobs_result(file) ==
    IF ~file.exists THEN Loaded(<<>>) ELSE Loaded(json_lines(file.lines))

\* TimeTracker._load_sessions
_load_sessions_result(file) ==
    IF ~file.exists THEN Loaded(<<>>) ELSE Loaded(json_lines(file.lines))

RECURSIVE agents_dict(_)
\* {line.split(' ', 1)[0]: json.loads(line.split(' ', 1)[1]) for line in ...}
agents_dict(lines) ==
    IF lines = <<>> THEN <<>>
    ELSE LET d == agents_dict(SubSeq(lines, 1, Len(lines) - 1))
             line == lines[Len(lines)]
         IN DictSet(d, line.value.id, line.value)

\* the read of the agents file in load_agent_data: only FileNotFoundError is caught
load_agent_data_result(file) ==
    LET content == SelectSeq(file.lines, LAMBDA l : l.kind # "blank")
    IN IF ~file.exists THEN Loaded(<<>>)
       ELSE IF \E n \in 1..Len(content) : ~parses(content[n]) THEN Aborted
       ELSE Loaded(agents_dict(content))

LoadCall(name, result) ==
    /\ op' = [name |-> name, args |-> <<>>]
    /\ ret' = result
    /\ UNCHANGED <<now, agentVars, sessionVars, jobVars, steps, ticks>>

load_jobs == raw_file.kind = "jobs" /\ LoadCall("load_jobs", load_jobs_result(raw_file))

load_sessions ==
    raw_file.kind = "sessions" /\ LoadCall("_load_sessions", _load_sessions_result(raw_file))

load_agents ==
    raw_file.kind = "agents" /\ LoadCall("load_agent_data", load_agent_data_result(raw_file))

\* the record lines of an agents file name different agents
DistinctIds(lines) ==
    \A i, j \in 1..Len(lines) :
        (i # j /\ lines[i].kind = "record" /\ lines[j].kind = "record")
            => lines[i].value.id # lines[j].value.id

RawFiles ==
    {f \in [kind : FileKinds, exists : BOOLEAN,
            lines : UNION {[1..n -> Lines] : n \in 0..MaxLines}] :
        /\ ~f.exists => f.lines = <<>>
        /\ f.kind = "agents" => DistinctIds(f.lines)}

InitLoad ==
    /\ now = 0
    /\ live = {}
    /\ agents = [m \in Managers |-> <<>>]
    /\ agents_file = <<>>
    /\ timers = EmptyBag
    /\ threads = [t \in Threads |-> Resting]
    /\ _lock = {}
    /\ raw_file \in RawFiles
    /\ workflow = NoWorkflow
    /\ op = [name |-> "init", args |-> <<>>]
    /\ ret = NoValue
    /\ steps = 0
    /\ ticks = 0
    /\ sessions_file = <<>>
    /\ loaded = [c \in Callers |-> Idle]
    /\ jobs = <<>>
    /\ walk = NoWalk

NextLoad ==
    \/ load_jobs
    \/ load_sessions
    \/ load_agents

SpecLoad == InitLoad /\ [][NextLoad]_vars

----------------------------------------------------------------------------
(* StratavoreTool.execute_workflow: one pass over the steps in list order.   *)
(* Whether the server spawns the agent, the agent becomes ready and the task *)
(* is assigned is decided outside the tool.  List indexes count from 0.      *)

\* a step with its "dependencies" key, if it has one
WorkflowSteps ==
    {[has_dependencies |-> FALSE, dependencies |-> <<>>],
     [has_dependencies |-> TRUE, dependencies |-> <<>>]}
    \cup {[has_dependencies |-> TRUE, dependencies |-> <<j>>] : j \in 0..(MaxWorkflowSteps - 1)}

\* dep_idx == entry, for an int and a dict: Python compares them unequal
int_equals_dict(dep_idx, entry) == FALSE

\* dep_idx in results["steps_completed"]: the list holds the dicts of the completed
\* steps
in_steps_completed(dep_idx, steps_completed) ==
    \E n \in 1..Len(steps_completed) : int_equals_dict(dep_idx, steps_completed[n])

\* all(dep_idx in results["steps_completed"] for dep_idx in step["dependencies"])
deps_met(step, steps_completed) ==
    \A n \in 1..Len(step.dependencies) :
        in_steps_completed(step.dependencies[n], steps_completed)

\* the body of the for loop for the step at index i
execute_workflow_step(w, spawn_ok, ready_ok, assign_ok) ==
    LET i == w.i
        step == w.steps[i + 1]
        agent_id == <<"agent", i>>
        failed(error) == [w EXCEPT !.i = i + 1,
                                   !.steps_failed = Append(@, [step_index |-> i,
                                                               error |-> error])]
        spawned(r) == [r EXCEPT !.agents_spawned = Append(@, agent_id)]
    IN IF step.has_dependencies /\ ~deps_met(step, w.steps_completed)
       THEN failed("Dependencies not met")
       ELSE IF ~spawn_ok THEN failed("Failed to spawn agent")
       ELSE IF ~ready_ok THEN spawned(failed("Agent failed to become ready"))
       ELSE IF ~assign_ok THEN spawned(failed("Failed to assign task"))
       ELSE spawned([w EXCEPT !.i = i + 1,
                              !.steps_completed = Append(@, [step_index |-> i,
                                                             agent_id |-> agent_id])])

execute_workflow(spawn_ok, ready_ok, assign_ok) ==
    /\ workflow.i < Len(workflow.steps)
    /\ workflow' = execute_workflow_step(workflow, spawn_ok, ready_ok, assign_ok)
    /\ op' = [name |-> "execute_workflow", args |-> <<workflow.i>>]
    /\ ret' = NoValue
    /\ UNCHANGED <<now, live, agents, agents_file, timers, threads, _lock, raw_file,
                   sessionVars, jobVars, steps, ticks>>

InitWorkflow ==
    /\ now = 0
    /\ live = {}
    /\ agents = [m \in Managers |-> <<>>]
    /\ agents_file = <<>>
    /\ timers = EmptyBag
    /\ threads = [t \in Threads |-> Resting]
    /\ _lock = {}
    /\ raw_file = NoFile
    /\ \E n \in 0..MaxWorkflowSteps : \E ws \in [1..n -> WorkflowSteps] :
           workflow = [NoWorkflow EXCEPT !.steps = ws]
    /\ op = [name |-> "init", args |-> <<>>]
    /\ ret = NoValue
    /\ steps = 0
    /\ ticks = 0
    /\ sessions_file = <<>>
    /\ loaded = [c \in Callers |-> Idle]
    /\ jobs = <<>>
    /\ walk = NoWalk

NextWorkflow ==
    \E spawn_ok, ready_ok, assign_ok \in BOOLEAN : execute_workflow(spawn_ok, ready_ok, assign_ok)

SpecWorkflow == InitWorkflow /\ [][NextWorkflow]_vars

----------------------------------------------------------------------------
(* Properties of the agent lifecycle manager *)

\* the step is a call of the named operation
Called(name) == steps' = steps + 1 /\ op'.name = name

Known(m, id) == id \in Ids(agents[m])

\* C1: assign_task returns true iff the agent exists and is idle or completed;
\* on true the agent is working on the given task; on false no agent record,
\* in memory or in the file, changes.
C1_AssignTask ==
    [][Called("assign_task") =>
        LET m == op'.args[1]
            a == op'.args[2]
            t == op'.args[3]
        IN /\ ret' = (Known(m, a) /\ Get(agents[m], a).status \in {IDLE, COMPLETED})
           /\ ret' => /\ Get(agents'[m], a).status = WORKING
                      /\ Get(agents'[m], a).current_task = t
           /\ ~ret' => agents' = agents /\ agents_file' = agents_file]_vars

\* a working agent was refused a second, different task and kept the first
C1_Witness ==
    /\ op.name = "assign_task"
    /\ ret = FALSE
    /\ Known(op.args[1], op.args[2])
    /\ LET agent == Get(agents[op.args[1]], op.args[2])
       IN /\ agent.status = WORKING
          /\ agent.current_task \in TaskArgs \ {op.args[3]}
          /\ \E i \in 1..Len(agent.thoughts) : agent.thoughts[i].kind = "Assigned new task"

Successes(agent) ==
    Cardinality({i \in 1..Len(agent.completed_tasks) : agent.completed_tasks[i].success})

\* C5: success_rate = 100 * successful completions / tasks_completed for every agent.
C5_SuccessRateIsMean ==
    \A m \in live : \A i \in 1..Len(agents[m]) :
        LET agent == agents[m][i]
        IN agent.metrics.success_rate.num * agent.metrics.tasks_completed
               = 100 * Successes(agent) * agent.metrics.success_rate.den

\* C6 as stated: complete_task on any known agent appends one entry and counts it.
C6_Original ==
    [][Called("complete_task") =>
        LET m == op'.args[1]
            a == op'.args[2]
        IN IF Known(m, a)
           THEN /\ ret' = TRUE
                /\ Len(Get(agents'[m], a).completed_tasks)
                       = Len(Get(agents[m], a).completed_tasks) + 1
                /\ Get(agents'[m], a).metrics.tasks_completed
                       = Get(agents[m], a).metrics.tasks_completed + 1
                /\ Get(agents'[m], a).current_task = None
                /\ Get(agents'[m], a).status = IDLE
           ELSE ret' = FALSE /\ agents' = agents /\ agents_file' = agents_file]_vars

\* C6 amended: complete_task on a known agent returns true, clears current_task and
\* sets the status to idle; it appends exactly one entry (for the task held, with the
\* given success flag) and increments tasks_completed by one iff the agent held a
\* current task, and otherwise leaves completed_tasks and metrics as they were; on an
\* unknown agent it returns false and changes nothing.
C6_CompleteTask ==
    [][Called("complete_task") =>
        LET m == op'.args[1]
            a == op'.args[2]
        IN IF Known(m, a)
           THEN LET before == Get(agents[m], a)
                    after == Get(agents'[m], a)
                IN /\ ret' = TRUE
                   /\ after.current_task = None
                   /\ after.status = IDLE
                   /\ IF before.current_task # None /\ before.current_task # ""
                      THEN /\ Len(after.completed_tasks) = Len(before.completed_tasks) + 1
                           /\ SubSeq(after.completed_tasks, 1, Len(before.completed_tasks))
                                  = before.completed_tasks
                           /\ after.completed_tasks[Len(after.completed_tasks)].task_id
                                  = before.current_task
                           /\ after.completed_tasks[Len(after.completed_tasks)].success
                                  = op'.args[3]
                           /\ after.metrics.tasks_completed
                                  = before.metrics.tasks_completed + 1
                      ELSE /\ after.completed_tasks = before.completed_tasks
                           /\ after.metrics = before.metrics
                   /\ agents_file' = agents'[m]
           ELSE ret' = FALSE /\ agents' = agents /\ agents_file' = agents_file]_vars

\* a task was completed and recorded, then a second completion found no task
C6_Witness ==
    /\ op.name = "complete_task"
    /\ ret = TRUE
    /\ LET agent == Get(agents[op.args[1]], op.args[2])
       IN /\ Len(agent.completed_tasks) = 1
          /\ agent.metrics.tasks_completed = 1
          /\ agent.current_task = None
          /\ agent.status = IDLE
          /\ agent.thoughts[Len(agent.thoughts)].kind = "Completed task"
          /\ agent.updated_at > agent.thoughts[Len(agent.thoughts)].timestamp

\* C7: once an agent is in error, no spawn, assign_task, complete_task, recovery
\* scan or spawn timer changes its status.
C7_ErrorIsTerminal ==
    [][(\/ Called("spawn_agent") \/ Called("assign_task") \/ Called("complete_task")
        \/ Called("unstuck_spawning_agents") \/ Called("complete_spawning")) =>
        \A m \in live : \A i \in 1..Len(agents[m]) :
            agents[m][i].status = ERROR =>
                /\ Known(m, agents[m][i].id)'
                /\ Get(agents'[m], agents[m][i].id).status = ERROR]_vars

StuckSet(d, t) ==
    {d[i].id : i \in {j \in 1..Len(d) : d[j].status = SPAWNING
                                         /\ t - d[j].created_at > StaleSeconds}}

\* C8: the recovery scan moves to idle exactly the spawning agents older than the
\* threshold, returns exactly their ids, leaves every other agent unchanged, and a
\* second scan right after the first returns nothing and changes nothing.
C8_RecoverStuck ==
    [][Called("unstuck_spawning_agents") =>
        LET m == op'.args[1]
            d == agents[m]
            stuck == StuckSet(d, now)
        IN /\ {ret'[i] : i \in 1..Len(ret')} = stuck
           /\ Len(ret') = Cardinality(stuck)
           /\ Len(agents'[m]) = Len(d)
           /\ \A i \in 1..Len(d) :
                  IF d[i].id \in stuck
                  THEN /\ agents'[m][i].id = d[i].id
                       /\ agents'[m][i].status = IDLE
                  ELSE agents'[m][i] = d[i]
           /\ agents_file' = IF stuck = {} THEN agents_file ELSE agents'[m]
           /\ op.name = "unstuck_spawning_agents" =>
                  ret' = <<>> /\ agents' = agents /\ agents_file' = agents_file]_vars

\* a scan that recovered an agent was followed at once by a scan that found none
C8_Witness ==
    /\ op.name = "unstuck_spawning_agents"
    /\ ret = <<>>
    /\ \E i \in 1..Len(agents[op.args[1]]) :
           LET agent == agents[op.args[1]][i]
           IN /\ agent.status = IDLE
              /\ Len(agent.thoughts) = 2
              /\ agent.thoughts[2].kind = "Auto-recovered from stuck spawning state"
              /\ agent.updated_at = now

----------------------------------------------------------------------------
(* Properties of the time session tracker *)

StatusMoves ==
    {<<"active", "paused">>, <<"active", "completed">>, <<"active", "cancelled">>,
     <<"paused", "active">>, <<"paused", "cancelled">>}

\* C2: a session's status changes only along active->paused, active->completed,
\* active->cancelled, paused->active and paused->cancelled, where end_session on a
\* paused session makes the two moves paused->active->completed in one call; a
\* completed or cancelled status never changes.
C2_SessionTransitions ==
    [][/\ Len(sessions_file') >= Len(sessions_file)
       /\ \A i \in 1..Len(sessions_file) :
            LET old == sessions_file[i].status
                new == sessions_file'[i].status
            IN old # new =>
                 \/ <<old, new>> \in StatusMoves
                 \/ /\ Called("end_session")
                    /\ <<old, "active">> \in StatusMoves
                    /\ <<"active", new>> \in StatusMoves]_vars

\* a session went active->paused->cancelled and a later command on it was refused
C2_Witness ==
    /\ op.name \in {"pause_session", "resume_session", "end_session"}
    /\ ret = FALSE
    /\ op.args[1] \in SessionIds(sessions_file)
    /\ LET s == sessions_file[FirstIndex(sessions_file, op.args[1])]
       IN s.status = "cancelled" /\ Len(s.pauses) = 1

SessionCommand ==
    \/ Called("pause_session") \/ Called("resume_session")
    \/ Called("end_session") \/ Called("cancel_session")

\* C3: a pause, resume, end or cancel that returns failure leaves the sessions file
\* unchanged; an unknown id fails, end on a completed or cancelled session fails, and
\* a completed session's duration_seconds survives a later end.
C3_FailureChangesNothing ==
    [][SessionCommand =>
        LET sid == op'.args[1]
        IN /\ ~ret' => sessions_file' = sessions_file
           /\ sid \notin SessionIds(sessions_file) => ~ret'
           /\ (/\ Called("end_session")
               /\ sid \in SessionIds(sessions_file)
               /\ sessions_file[FirstIndex(sessions_file, sid)].status
                      \in {"completed", "cancelled"}) => ~ret'
           /\ Called("end_session") =>
                  \A i \in 1..Len(sessions_file) :
                      sessions_file[i].status = "completed" =>
                          sessions_file'[i].duration_seconds
                              = sessions_file[i].duration_seconds]_vars

\* end_session was refused on a session that is already completed
C3_Witness ==
    /\ op.name = "end_session"
    /\ ret = FALSE
    /\ op.args[1] \in SessionIds(sessions_file)
    /\ LET s == sessions_file[FirstIndex(sessions_file, op.args[1])]
       IN s.status = "completed" /\ s.end_timestamp < now /\ s.duration_seconds > 0

RECURSIVE PauseTotal(_)
PauseTotal(pauses) ==
    IF pauses = <<>> THEN 0
    ELSE (Head(pauses).pause_end - Head(pauses).pause_start) + PauseTotal(Tail(pauses))

\* C4: end_session on an active or paused session succeeds and sets status completed,
\* end_timestamp = now and duration_seconds = now - start_timestamp - paused_time,
\* after closing at now the open pause of a paused session; so duration_seconds is
\* the wall time from start to end minus the total length of all pauses.
C4_EndDuration ==
    [][Called("end_session") =>
        LET sid == op'.args[1]
        IN sid \in SessionIds(sessions_file) =>
             LET i == FirstIndex(sessions_file, sid)
                 before == sessions_file[i]
                 after == sessions_file'[i]
                 n == Len(before.pauses)
             IN before.status \in {"active", "paused"} =>
                  /\ ret' = TRUE
                  /\ after.status = "completed"
                  /\ after.end_timestamp = now
                  /\ after.paused_time =
                         IF before.status = "paused"
                         THEN before.paused_time + (now - before.pauses[n].pause_start)
                         ELSE before.paused_time
                  /\ before.status = "paused" => after.pauses[n].pause_end = now
                  /\ after.duration_seconds
                         = now - before.start_timestamp - after.paused_time
                  /\ \A k \in 1..Len(after.pauses) : after.pauses[k].pause_end # NotSet
                  /\ after.duration_seconds
                         = (after.end_timestamp - after.start_timestamp)
                               - PauseTotal(after.pauses)]_vars

\* start, pause, resume 10 seconds later, end at wall time 30: duration 20, paused 10
C4_Witness ==
    /\ op.name = "end_session"
    /\ ret = TRUE
    /\ \E i \in 1..Len(sessions_file) :
           LET s == sessions_file[i]
           IN /\ s.session_id = op.args[1]
              /\ s.status = "completed"
              /\ s.end_timestamp - s.start_timestamp = 30
              /\ Len(s.pauses) = 1
              /\ s.pauses[1].pause_end - s.pauses[1].pause_start = 10
              /\ s.paused_time = 10
              /\ s.duration_seconds = 20

\* end_session closed the open pause of a paused session before completing it
C4_WitnessPaused ==
    /\ op.name = "end_session"
    /\ ret = TRUE
    /\ \E i \in 1..Len(sessions_file) :
           LET s == sessions_file[i]
           IN /\ s.session_id = op.args[1]
              /\ s.status = "completed"
              /\ Len(s.pauses) = 1
              /\ s.pauses[1].pause_end = s.end_timestamp
              /\ s.paused_time > 0
              /\ s.duration_seconds > 0

----------------------------------------------------------------------------
(* Properties of the job tools *)

HasCompletedJob(js, id) == \E k \in 1..Len(js) : js[k].id = id /\ js[k].status = "completed"

ReadyIndexes(js) ==
    {i \in 1..Len(js) :
        /\ js[i].status = "pending"
        /\ \A n \in 1..Len(js[i].dependencies) : HasCompletedJob(js, js[i].dependencies[n])}

\* C9: suggest_next_jobs returns exactly the pending jobs whose every dependency id is
\* the id of a completed job, each once; so a pending job without dependencies is
\* always returned and the result is empty when no job is ready.
C9_ReadyJobs ==
    op.name = "suggest_next_jobs" =>
        /\ {ret[k] : k \in 1..Len(ret)} = {jobs[i] : i \in ReadyIndexes(jobs)}
        /\ Len(ret) = Cardinality(ReadyIndexes(jobs))
        /\ \A i \in 1..Len(jobs) :
               (jobs[i].status = "pending" /\ jobs[i].dependencies = <<>>)
                   => \E k \in 1..Len(ret) : ret[k] = jobs[i]
        /\ \A i \in 1..Len(jobs) :
               (\E n \in 1..Len(jobs[i].dependencies) :
                    \A k \in 1..Len(jobs) :
                        jobs[k].id = jobs[i].dependencies[n] => jobs[k].status # "completed")
                   => \A k \in 1..Len(ret) : ret[k] # jobs[i]

\* a job whose one dependency is completed was returned, while a pending job with
\* a dependency that is not completed (or is missing) was not
C9_Witness ==
    /\ op.name = "suggest_next_jobs"
    /\ Len(jobs) = 3
    /\ \E k \in 1..Len(ret) : Len(ret[k].dependencies) = 1
    /\ \E i \in 1..Len(jobs) :
           /\ jobs[i].status = "pending"
           /\ \E n \in 1..Len(jobs[i].dependencies) :
                  ~HasCompletedJob(jobs, jobs[i].dependencies[n])
           /\ \A k \in 1..Len(ret) : ret[k] # jobs[i]

\* the jobs that the dependencies of the jobs in S name
DepTargets(js, S) ==
    {id \in JobIdSet(js) :
        \E i \in 1..Len(js) : js[i].id \in S /\
            \E n \in 1..Len(js[i].dependencies) : js[i].dependencies[n] = id}

RECURSIVE ReachableIn(_, _, _)
ReachableIn(js, S, n) ==
    IF n = 0 THEN S ELSE ReachableIn(js, S \cup DepTargets(js, S), n - 1)

\* the job depends on itself, directly or through other jobs
OnCycle(js, id) == id \in ReachableIn(js, DepTargets(js, {id}), Len(js))

DependsOn(js, a, b) ==
    \E i \in 1..Len(js) : js[i].id = a /\
        \E n \in 1..Len(js[i].dependencies) : js[i].dependencies[n] = b

\* a printed report: a path of distinct jobs along dependencies, then a job of the
\* path again, so that the path from that job on is a dependency cycle
CycleReport(js, r) ==
    /\ Len(r) >= 2
    /\ \A k \in 1..(Len(r) - 1) : r[k] \in JobIdSet(js) /\ DependsOn(js, r[k], r[k + 1])
    /\ \A k, l \in 1..(Len(r) - 1) : k # l => r[k] # r[l]
    /\ \E k \in 1..(Len(r) - 1) : r[k] = r[Len(r)]

\* C10: for a job list with a dependency cycle (a self-dependency included)
\* validate_dependencies returns false and prints a cycle report for every job on a
\* cycle as the starting job; each report is the path walked followed by the
\* repeated id, and names every job of the cycle it closes.
C10_CycleReported ==
    op.name = "validate_dependencies" =>
        /\ \A i \in 1..Len(ret.cycles) : CycleReport(jobs, ret.cycles[i])
        /\ \A j \in 1..Len(jobs) :
               OnCycle(jobs, jobs[j].id) =>
                   /\ ~ret.ok
                   /\ \E i \in 1..Len(ret.cycles) : ret.cycles[i][1] = jobs[j].id

\* A -> B -> C -> A: the report for A names A, B, C and A again
C10_Witness ==
    /\ op.name = "validate_dependencies"
    /\ ~ret.ok
    /\ ret.cycles = << <<"A", "B", "C", "A">>, <<"B", "C", "A", "B">>, <<"C", "A", "B", "C">> >>
    /\ ret.missing = <<>>

Acyclic(js) == \A j \in 1..Len(js) : ~OnCycle(js, js[j].id)

NoMissing(js) ==
    \A j \in 1..Len(js) : \A n \in 1..Len(js[j].dependencies) :
        js[j].dependencies[n] \in JobIdSet(js)

\* C11 as stated: for every job list without a dependency cycle validate_dependencies
\* returns true with an empty cycle report and an empty missing report.
C11_Original ==
    (op.name = "validate_dependencies" /\ Acyclic(jobs)) =>
        ret.ok /\ ret.cycles = <<>> /\ ret.missing = <<>>

\* C11 amended: for a job list without a dependency cycle the cycle report is empty;
\* the result is true with an empty missing report exactly when every dependency id
\* is the id of a job of the list, and otherwise it is false and the missing report
\* holds one (job, dependency) pair per dependency entry that names no job.
C11_AcyclicValid ==
    (op.name = "validate_dependencies" /\ Acyclic(jobs)) =>
        /\ ret.cycles = <<>>
        /\ ret.ok <=> NoMissing(jobs)
        /\ ret.ok <=> ret.missing = <<>>
        /\ \A j \in 1..Len(jobs) : \A n \in 1..Len(jobs[j].dependencies) :
               jobs[j].dependencies[n] \notin JobIdSet(jobs) =>
                   \E k \in 1..Len(ret.missing) :
                       ret.missing[k] = <<jobs[j].id, jobs[j].dependencies[n]>>
        /\ \A k \in 1..Len(ret.missing) :
               /\ ret.missing[k][2] \notin JobIdSet(jobs)
               /\ DependsOn(jobs, ret.missing[k][1], ret.missing[k][2])

\* a diamond without a cycle (one job reached along two dependency paths) was
\* validated as true
C11_Witness ==
    /\ op.name = "validate_dependencies"
    /\ Acyclic(jobs)
    /\ ret.ok
    /\ \E i, j, k \in 1..Len(jobs) :
           /\ i # j /\ j # k /\ i # k
           /\ DependsOn(jobs, jobs[i].id, jobs[j].id)
           /\ DependsOn(jobs, jobs[i].id, jobs[k].id)
           /\ DependsOn(jobs, jobs[j].id, jobs[k].id)

----------------------------------------------------------------------------
(* Properties of concurrent time tracker commands *)

\* C12: when a mutating command on one session returns, every record of another
\* session that the file held is still in the file and is unchanged, so that after
\* two interleaved commands on different sessions the file holds the effects of both.
C12_InterleaveSafely ==
    [][(steps' = steps + 1 /\ op'.name \in MutatingCommands) =>
          \A i \in 1..Len(sessions_file) :
              sessions_file[i].session_id # op'.args[1] =>
                  /\ i <= Len(sessions_file')
                  /\ sessions_file'[i] = sessions_file[i]]_vars

----------------------------------------------------------------------------
(* Properties of agent records across instances and spawns *)

\* the operations that act on the one agent they name
SingleAgentOps ==
    {"complete_spawning", "assign_task", "update_agent_status", "kill_agent", "complete_task"}

\* the agent a step acted on
ActedAgent == IF op'.name = "spawn_agent" THEN ret' ELSE op'.args[2]

\* C13: when an operation of one AgentManager instance on one agent returns, the
\* record of every other agent that the agents file held is still in the file,
\* unchanged: no write of an instance removes or reverts what another wrote.
C13_InstancesInterleaveSafely ==
    [][(steps' = steps + 1 /\ op'.name \in SingleAgentOps \cup {"spawn_agent"}) =>
          \A i \in 1..Len(agents_file) :
              agents_file[i].id # ActedAgent =>
                  \E j \in 1..Len(agents_file') : agents_file'[j] = agents_file[i]]_vars

\* C14: spawn_agent returns an id that no agent of the instance or of the file has,
\* and leaves the record of every existing agent as it was.
C14_SpawnIdsFresh ==
    [][Called("spawn_agent") =>
          /\ ret' \notin Ids(agents[op'.args[1]]) \cup Ids(agents_file)
          /\ \A i \in 1..Len(agents_file) :
                 \E j \in 1..Len(agents_file') : agents_file'[j] = agents_file[i]]_vars

----------------------------------------------------------------------------
(* Properties of pause, resume and cancel *)

\* the record a command on session_id acts on: the first one with that id
Target(session_id) == FirstIndex(sessions_file, session_id)

\* all fields of the record at i but the named ones are unchanged
SameBut(i, fields) ==
    \A f \in (DOMAIN sessions_file[i]) \ fields : sessions_file'[i][f] = sessions_file[i][f]

\* all records but the one at i are unchanged, and none is added or removed
OthersSame(i) ==
    /\ Len(sessions_file') = Len(sessions_file)
    /\ \A j \in 1..Len(sessions_file) : j # i => sessions_file'[j] = sessions_file[j]

\* C15: pause_session returns true exactly when the session exists and is active;
\* it then sets the status to paused and appends exactly one pause record, open and
\* with pause_start the current time, and leaves paused_time, every other field and
\* every other session unchanged.
C15_Pause ==
    [][Called("pause_session") =>
          LET sid == op'.args[1]
              known == sid \in SessionIds(sessions_file)
          IN /\ ret' = (known /\ sessions_file[Target(sid)].status = "active")
             /\ ret' =>
                  LET i == Target(sid)
                  IN /\ sessions_file'[i].status = "paused"
                     /\ sessions_file'[i].pauses =
                            Append(sessions_file[i].pauses,
                                   [pause_start |-> now, pause_end |-> NotSet])
                     /\ sessions_file'[i].paused_time = sessions_file[i].paused_time
                     /\ SameBut(i, {"status", "pauses"})
                     /\ OthersSame(i)]_vars

\* the second of two sessions was paused some time after it was started
C15_Witness ==
    /\ op.name = "pause_session"
    /\ ret = TRUE
    /\ Len(sessions_file) = 2
    /\ sessions_file[1].status = "active"
    /\ sessions_file[2].session_id = op.args[1]
    /\ sessions_file[2].session_id # sessions_file[1].session_id
    /\ sessions_file[2].status = "paused"
    /\ sessions_file[2].pauses = <<[pause_start |-> now, pause_end |-> NotSet]>>
    /\ now > sessions_file[2].start_timestamp

\* C16: resume_session returns true exactly when the session exists and is paused;
\* it then sets pause_end of the most recent pause record to the current time, adds
\* exactly pause_end - pause_start of that record to paused_time, sets the status to
\* active, and changes nothing else.
C16_Resume ==
    [][Called("resume_session") =>
          LET sid == op'.args[1]
              known == sid \in SessionIds(sessions_file)
          IN /\ ret' = (known /\ sessions_file[Target(sid)].status = "paused")
             /\ ret' =>
                  LET i == Target(sid)
                      n == Len(sessions_file[i].pauses)
                  IN /\ n >= 1
                     /\ sessions_file[i].pauses[n].pause_end = NotSet
                     /\ sessions_file'[i].status = "active"
                     /\ sessions_file'[i].pauses =
                            [sessions_file[i].pauses EXCEPT ![n].pause_end = now]
                     /\ sessions_file'[i].paused_time =
                            sessions_file[i].paused_time
                                + (sessions_file'[i].pauses[n].pause_end
                                       - sessions_file'[i].pauses[n].pause_start)
                     /\ SameBut(i, {"status", "pauses", "paused_time"})
                     /\ OthersSame(i)]_vars

\* a session was resumed from its second pause, and both pauses took time
C16_Witness ==
    /\ op.name = "resume_session"
    /\ ret = TRUE
    /\ \E i \in 1..Len(sessions_file) :
           LET s == sessions_file[i]
           IN /\ s.session_id = op.args[1]
              /\ s.status = "active"
              /\ Len(s.pauses) = 2
              /\ s.pauses[2].pause_end = now
              /\ s.pauses[1].pause_end > s.pauses[1].pause_start
              /\ s.pauses[2].pause_end > s.pauses[2].pause_start
              /\ s.paused_time = PauseTotal(s.pauses)

\* C17 as stated: cancel_session returns true exactly when the session exists and is
\* not completed; it then sets the status to cancelled and end_timestamp to the
\* current time and leaves duration_seconds unset.
C17_Original ==
    [][Called("cancel_session") =>
          LET sid == op'.args[1]
              known == sid \in SessionIds(sessions_file)
          IN /\ ret' = (known /\ sessions_file[Target(sid)].status # "completed")
             /\ ret' =>
                  LET i == Target(sid)
                  IN /\ sessions_file'[i].status = "cancelled"
                     /\ sessions_file'[i].end_timestamp = now
                     /\ sessions_file'[i].duration_seconds = NotSet]_vars

\* C17 amended: cancel_session returns true exactly when the session exists and is
\* not completed; it then sets the status to cancelled and end_time to the current
\* time, leaves end_timestamp and duration_seconds unset, and changes nothing else.
C17_Cancel ==
    [][Called("cancel_session") =>
          LET sid == op'.args[1]
              known == sid \in SessionIds(sessions_file)
          IN /\ ret' = (known /\ sessions_file[Target(sid)].status # "completed")
             /\ ret' =>
                  LET i == Target(sid)
                  IN /\ sessions_file'[i].status = "cancelled"
                     /\ sessions_file'[i].end_time = now
                     /\ sessions_file'[i].end_timestamp = NotSet
                     /\ sessions_file'[i].duration_seconds = NotSet
                     /\ SameBut(i, {"status", "end_time"})
                     /\ OthersSame(i)]_vars

\* a paused session was cancelled some time after it was paused
C17_Witness ==
    /\ op.name = "cancel_session"
    /\ ret = TRUE
    /\ \E i \in 1..Len(sessions_file) :
           LET s == sessions_file[i]
           IN /\ s.session_id = op.args[1]
              /\ s.status = "cancelled"
              /\ s.end_time = now
              /\ s.end_timestamp = NotSet
              /\ Len(s.pauses) = 1
              /\ s.pauses[1].pause_end = NotSet
              /\ s.pauses[1].pause_start < now

\* C18: no step changes or removes the record of a completed or cancelled session.
C18_TerminalImmutable ==
    [][\A i \in 1..Len(sessions_file) :
           sessions_file[i].status \in {"completed", "cancelled"} =>
               /\ i <= Len(sessions_file')
               /\ sessions_file'[i] = sessions_file[i]]_vars

\* C19: in every state, end_timestamp is set exactly for the completed sessions, and
\* so is duration_seconds; active, paused and cancelled sessions have both unset.
C19_EndSetIffCompleted ==
    \A i \in 1..Len(sessions_file) :
        LET s == sessions_file[i]
        IN /\ (s.end_timestamp # NotSet) <=> (s.status = "completed")
           /\ (s.duration_seconds # NotSet) <=> (s.status = "completed")

\* one session was completed after a pause and another was cancelled
C19_Witness ==
    /\ Len(sessions_file) = 2
    /\ \E i, j \in 1..2 :
           /\ sessions_file[i].status = "completed"
           /\ Len(sessions_file[i].pauses) = 1
           /\ sessions_file[i].end_timestamp > 0
           /\ sessions_file[j].status = "cancelled"
           /\ sessions_file[j].end_time > 0
           /\ sessions_file[j].end_timestamp = NotSet

----------------------------------------------------------------------------
(* Properties of the thought log *)

Min(a, b) == IF a < b THEN a ELSE b

\* new is old with n entries appended, the oldest dropped to keep at most cap
AppendedCapped(old, new, n, cap) ==
    LET kept == Len(new) - n
    IN /\ Len(new) = Min(Len(old) + n, cap)
       /\ kept >= 0
       /\ SubSeq(new, 1, kept) = SubSeq(old, Len(old) - kept + 1, Len(old))

\* C20: the thought log of every agent has at most 50 entries; an operation on an
\* agent appends at most two entries to its log and drops only the oldest ones to
\* keep the cap, so that appending one entry to a log of 50 gives the other 49 in
\* their order followed by the new entry.
C20_ThoughtLog ==
    [][\A m \in live : \A i \in 1..Len(agents'[m]) :
           LET new == agents'[m][i].thoughts
           IN /\ Len(new) <= ThoughtCap
              /\ (op'.name # "spawn_agent" /\ i <= Len(agents[m])) =>
                     LET old == agents[m][i].thoughts
                     IN /\ \E n \in 0..2 : AppendedCapped(old, new, n, ThoughtCap)
                        /\ (op'.name = "add_agent_thought" /\ Len(old) = ThoughtCap) =>
                               /\ Len(new) = ThoughtCap
                               /\ \A k \in 1..(ThoughtCap - 1) : new[k] = old[k + 1]
                               /\ new[ThoughtCap].kind = op'.args[3]
                               /\ new[ThoughtCap] # old[1]]_vars

\* a thought was appended to a full log: the log still holds 50 entries, the newest
\* last, after more than 50 were appended
C20_Witness ==
    /\ op.name = "add_agent_thought"
    /\ steps > ThoughtCap + 1
    /\ \E m \in live : \E i \in 1..Len(agents[m]) :
           LET log == agents[m][i].thoughts
           IN /\ Len(log) = ThoughtCap
              /\ log[ThoughtCap].kind = op.args[3]
              /\ log[1].kind # log[2].kind
              /\ agents_file[i].thoughts = log

----------------------------------------------------------------------------
(* Properties of spawning *)

LastThought(agent) == agent.thoughts[Len(agent.thoughts)]

SpawningAt(i) == i <= Len(agents_file) /\ agents_file[i].status = SPAWNING

IdleAt(i) == i <= Len(agents_file) /\ agents_file[i].status = IDLE

\* spawn_agent stores a spawning record with zeroed metrics and no thoughts, and
\* starts its thread
SpawnedFresh ==
    Called("spawn_agent") =>
        LET a == Get(agents_file', ret')
        IN /\ a.status = SPAWNING
           /\ a.metrics.tasks_completed = 0
           /\ a.metrics.success_rate = Rat(0, 1)
           /\ a.thoughts = <<>>
           /\ BagIn(<<op'.args[1], ret', now + SpawnDelay>>, timers')

\* the thread that wakes up makes its agent idle and records a thought
TimerMakesIdle ==
    Called("complete_spawning") =>
        LET a == Get(agents_file', op'.args[2])
        IN /\ a.status = IDLE
           /\ Len(a.thoughts) > Len(Get(agents_file, op'.args[2]).thoughts)
           /\ LastThought(a).kind = "Agent startup completed successfully"

\* a spawning agent leaves that status only for idle, and only by its thread or by
\* the scan of a constructor that runs when the agent is older than the stale limit
SpawningUntil ==
    \A i \in 1..Len(agents_file) :
        (agents_file[i].status = SPAWNING /\ agents_file'[i].status # SPAWNING) =>
            /\ agents_file'[i].status = IDLE
            /\ \/ op'.name = "complete_spawning" /\ op'.args[2] = agents_file[i].id
               \/ /\ op'.name = "AgentManager"
                  /\ now - agents_file[i].created_at > StaleSeconds

\* the scan of a constructor moves every spawning agent older than the stale limit
\* to idle, with a thought
ScanRecovers ==
    (op'.name = "AgentManager" /\ live' # live) =>
        \A i \in 1..Len(agents_file) :
            (agents_file[i].status = SPAWNING
                 /\ now - agents_file[i].created_at > StaleSeconds) =>
                /\ agents_file'[i].status = IDLE
                /\ LastThought(agents_file'[i]).kind =
                       "Auto-recovered from stuck spawning state"

\* C21: a spawned agent starts spawning with zeroed metrics and an empty thought log;
\* its thread, when it wakes up, makes it idle with a thought; when the process has
\* exited before that, the agent stays spawning until a scan runs after the stale
\* limit, which makes it idle; so while processes keep being started, every
\* spawning agent is idle at some later time.
C21_NotSpawningForever ==
    /\ [][SpawnedFresh /\ TimerMakesIdle /\ SpawningUntil /\ ScanRecovers]_storedVars
    /\ \A i \in 1..MaxAgents :
           ([]<>(op.name = "AgentManager")) => (SpawningAt(i) ~> IdleAt(i))

\* the process exited before the thread woke up, and the constructor of a later
\* process found the agent stale and made it idle
C21_Witness ==
    /\ op.name = "AgentManager"
    /\ timers = EmptyBag
    /\ \E i \in 1..Len(agents_file) :
           /\ agents_file[i].status = IDLE
           /\ Len(agents_file[i].thoughts) = 2
           /\ LastThought(agents_file[i]).kind = "Auto-recovered from stuck spawning state"
           /\ now - agents_file[i].created_at > StaleSeconds

----------------------------------------------------------------------------
(* Properties of the threads of one instance *)

\* no thread is inside an operation
Quiescent == \A t \in Threads : threads[t] = Resting

\* C22: at most one thread at a time is inside save_agent's rewrite of the
\* agent file, and whenever no operation is in progress the file holds exactly
\* the agents of memory
C22_SavesExclusive ==
    /\ Cardinality(_lock) <= 1
    /\ Quiescent => agents_file = agents[Shared]

\* one thread is rewriting the file while another, inside an operation on a
\* different agent, waits to save
C22_Witness ==
    \E t \in _lock : \E u \in Threads \ {t} :
        /\ threads[u].todo # <<>>
        /\ Head(threads[u].todo).kind = "save"
        /\ threads[u].agent_id # threads[t].agent_id
        /\ agents_file # agents[Shared]

----------------------------------------------------------------------------
(* Properties of the order of the ready jobs *)

\* the place of the job with this id in the job list
JobIndex(js, id) == CHOOSE i \in 1..Len(js) : js[i].id = id

\* C23: suggest_next_jobs returns the ready jobs by priority rank (high 0, medium 1,
\* low 2, any other 3), within a rank by created_at ascending, and within equal
\* rank and created_at in the order of the job list; ready jobs low, high, medium
\* come back as high, medium, low.
C23_ReadyOrder ==
    op.name = "suggest_next_jobs" =>
        \A k, l \in 1..Len(ret) :
            k < l =>
                LET rk == priority_order(ret[k].priority)
                    rl == priority_order(ret[l].priority)
                IN \/ rk < rl
                   \/ rk = rl /\ ret[k].created_at < ret[l].created_at
                   \/ /\ rk = rl
                      /\ ret[k].created_at = ret[l].created_at
                      /\ JobIndex(jobs, ret[k].id) < JobIndex(jobs, ret[l].id)

\* the ready jobs P1 (low), P2 (high), P3 (medium) were returned as P2, P3, P1
C23_Witness ==
    /\ op.name = "suggest_next_jobs"
    /\ Len(jobs) = 3
    /\ jobs[1].priority = "low" /\ jobs[2].priority = "high" /\ jobs[3].priority = "medium"
    /\ ret = <<jobs[2], jobs[3], jobs[1]>>

----------------------------------------------------------------------------
(* Properties of the missing dependencies *)

\* the elements of a sequence
Range(q) == {q[k] : k \in 1..Len(q)}

\* C24: validate_dependencies reports every pair (job, dependency id) whose
\* dependency id is the id of no job as missing and then returns false; and every
\* id on a cycle it reports is the id of a job, so that a missing dependency is never
\* reported as a cycle.
C24_MissingReported ==
    op.name = "validate_dependencies" =>
        /\ \A i \in 1..Len(jobs) : \A n \in 1..Len(jobs[i].dependencies) :
               jobs[i].dependencies[n] \notin JobIdSet(jobs)
                   => /\ <<jobs[i].id, jobs[i].dependencies[n]>> \in Range(ret.missing)
                      /\ ret.ok = FALSE
        /\ \A c \in Range(ret.cycles) : Range(c) \subseteq JobIdSet(jobs)

\* a job list with a cycle and, on another job, a dependency that no job has: the
\* pair is reported as missing beside the cycle
C24_Witness ==
    /\ op.name = "validate_dependencies"
    /\ ret.cycles # <<>>
    /\ \E i \in 2..Len(jobs) :
           /\ MissingJob \in Range(jobs[i].dependencies)
           /\ <<jobs[i].id, MissingJob>> \in Range(ret.missing)
           /\ \A c \in Range(ret.cycles) : jobs[i].id \notin Range(c)
    /\ ret.ok = FALSE

----------------------------------------------------------------------------
(* Properties of the assignment conflicts *)

NamedPriorities == {"high", "medium", "low"}

\* the pending jobs that have this agent as their assignee
PendingOf(js, agent) ==
    {i \in 1..Len(js) : /\ js[i].status = "pending"
                        /\ js[i].assignee = agent}

\* C25: in every conflict that generate_conflict_resolution returns, the job named in
\* the suggestion has the highest priority (high before medium before low) among
\* the agent's pending jobs, and jobs_to_reassign holds exactly the agent's other
\* pending jobs, never the suggested one.
C25_SuggestionIsHighest ==
    op.name = "generate_conflict_resolution" =>
        \A c \in Range(ret) :
            LET mine == {jobs[i] : i \in PendingOf(jobs, c.agent)}
                suggested == {j \in mine : j.title = c.suggestion.title}
            IN /\ (\A j \in mine : j.priority \in NamedPriorities)
                      => \A s \in suggested, j \in mine :
                             priority_order(s.priority) <= priority_order(j.priority)
               /\ Range(c.jobs_to_reassign) = mine \ suggested

\* C26: generate_conflict_resolution returns a conflict for an agent exactly when
\* more than one pending job has that agent as its assignee, one conflict per such
\* agent, and the conflict lists all the pending jobs of the agent; jobs that are
\* in progress, completed, cancelled or unassigned are in no conflict.
C26_ConflictIffOverload ==
    op.name = "generate_conflict_resolution" =>
        /\ \A a \in AssigneeArgs :
               Cardinality({k \in 1..Len(ret) : ret[k].agent = a})
                   = IF Cardinality(PendingOf(jobs, a)) > 1 THEN 1 ELSE 0
        /\ \A c \in Range(ret) :
               /\ c.agent \in AssigneeArgs
               /\ Range(c.conflicts) = {jobs[i] : i \in PendingOf(jobs, c.agent)}
               /\ Len(c.conflicts) = Cardinality(PendingOf(jobs, c.agent))
               /\ \A j \in Range(c.conflicts) \cup Range(c.jobs_to_reassign) :
                      j.status = "pending" /\ j.assignee = c.agent

\* an agent with two pending jobs and a third job that is not pending is reported
\* with its two pending jobs
C26_Witness ==
    /\ op.name = "generate_conflict_resolution"
    /\ Len(ret) = 1
    /\ Len(ret[1].conflicts) = 2
    /\ \E i \in 1..Len(jobs) :
           /\ jobs[i].assignee = ret[1].agent
           /\ jobs[i].status # "pending"

----------------------------------------------------------------------------
(* Properties of the time of a job *)

\* the sessions of the job that have this status
WithStatus(ss, job_id, status) ==
    SelectSeq(ss, LAMBDA s : s.job_id = job_id /\ s.status = status)

\* C27: the job query changes no session and returns as total the sum of
\* duration_seconds over the completed sessions of the job plus, for each active
\* session, now - start_timestamp - paused_time (paused and cancelled sessions add
\* nothing), with completed_sessions and active_sessions the numbers of completed
\* and of active sessions of the job; so for a job with only completed sessions the
\* result does not depend on the clock.
C27_JobTime ==
    [][op'.name = "_calculate_job_time" =>
          LET job_id == op'.args[1]
              completed == WithStatus(sessions_file, job_id, "completed")
              active == WithStatus(sessions_file, job_id, "active")
          IN /\ sessions_file' = sessions_file
             /\ ret'.total_seconds = SumOf(completed, "duration_seconds")
                                       + Len(active) * now
                                       - SumOf(active, "start_timestamp")
                                       - SumOf(active, "paused_time")
             /\ ret'.completed_sessions = Len(completed)
             /\ ret'.active_sessions = Len(active)]_vars

----------------------------------------------------------------------------
(* Properties of start_session and of paused_time *)

\* C28: start_session has no refusal: also for a job that has active sessions it
\* returns a session id and adds exactly one record, for the job, with status
\* active, paused_time 0 and no pauses, and every record that was there is
\* unchanged; so a job can have several active sessions.
C28_StartAdds ==
    [][Called("start_session") =>
          LET n == Len(sessions_file)
          IN /\ Len(sessions_file') = n + 1
             /\ SubSeq(sessions_file', 1, n) = sessions_file
             /\ sessions_file'[n + 1].job_id = op'.args[1]
             /\ sessions_file'[n + 1].session_id = ret'
             /\ sessions_file'[n + 1].status = "active"
             /\ sessions_file'[n + 1].paused_time = 0
             /\ sessions_file'[n + 1].pauses = <<>>]_vars

\* a start for a job with an active session was made at a later second: the job
\* has two active sessions
C28_Witness ==
    /\ op.name = "start_session"
    /\ Len(sessions_file) = 2
    /\ sessions_file[1].job_id = sessions_file[2].job_id
    /\ sessions_file[1].session_id # sessions_file[2].session_id
    /\ sessions_file[1].status = "active"
    /\ sessions_file[2].status = "active"
    /\ ret = sessions_file[2].session_id

\* C29: start_session returns a session id that no record already has, also for
\* two starts of the same job at the same instant, so that a command with the
\* returned id acts on the record the start appended.
C29_SessionIdsFresh ==
    [][Called("start_session") =>
          /\ ret' \notin SessionIds(sessions_file)
          /\ FirstIndex(sessions_file', ret') = Len(sessions_file')]_vars

\* C30: the paused_time of a session never decreases, and it changes only in a
\* resume_session, or an end_session, on that session while it is paused; every
\* other step (a start, a pause, a cancel, a job query, a command on another
\* session) leaves it as it was.
C30_PausedTimeMonotonic ==
    [][\A i \in 1..Len(sessions_file) :
           i <= Len(sessions_file') =>
              /\ sessions_file'[i].paused_time >= sessions_file[i].paused_time
              /\ sessions_file'[i].paused_time # sessions_file[i].paused_time
                     => /\ Called("resume_session") \/ Called("end_session")
                        /\ sessions_file[i].status = "paused"
                        /\ sessions_file[i].session_id = op'.args[1]]_vars

----------------------------------------------------------------------------
(* Properties of update_agent_status *)

\* the thoughts update_agent_status logs for a move from old to status
LoggedThoughts(old, status, thought, t) ==
    (IF old # status THEN <<Thought(t, "Status changed", old, status)>> ELSE <<>>)
    \o (IF thought # None /\ thought # "" THEN <<Thought(t, thought, "", "")>> ELSE <<>>)

\* C31: update_agent_status on a known agent sets the status to the new status
\* whatever the old one was, appends the transition thought exactly when the status
\* differs from the old one and after it the given thought exactly when one is
\* given, stamps updated_at, and changes no other field of the agent (current_task,
\* completed_tasks, metrics among them) and no other agent; on an unknown agent it
\* changes nothing.
C31_UpdateStatus ==
    [][Called("update_agent_status") =>
          LET m == op'.args[1]
              a == op'.args[2]
              status == op'.args[3]
              thought == op'.args[4]
          IN IF Known(m, a)
             THEN LET old == Get(agents[m], a)
                      new == Get(agents'[m], a)
                  IN /\ Ids(agents'[m]) = Ids(agents[m])
                     /\ new.status = status
                     /\ new.thoughts = old.thoughts
                                           \o LoggedThoughts(old.status, status, thought, now)
                     /\ new.updated_at = now
                     /\ \A f \in (DOMAIN old) \ {"status", "thoughts", "updated_at"} :
                            new[f] = old[f]
                     /\ \A i \in 1..Len(agents[m]) :
                            agents[m][i].id # a => agents'[m][i] = agents[m][i]
                     /\ agents_file' = agents'[m]
             ELSE agents' = agents /\ agents_file' = agents_file]_vars

\* a working agent with a task was paused with a thought: both thoughts were logged,
\* in this order, and the task is still its current task
C31_Witness ==
    /\ op.name = "update_agent_status"
    /\ Known(op.args[1], op.args[2])
    /\ op.args[3] = PAUSED
    /\ LET agent == Get(agents[op.args[1]], op.args[2])
           n == Len(agent.thoughts)
       IN /\ agent.status = PAUSED
          /\ agent.current_task \in TaskArgs
          /\ n >= 2
          /\ agent.thoughts[n - 1].kind = "Status changed"
          /\ agent.thoughts[n - 1].a = WORKING
          /\ agent.thoughts[n].kind = op.args[4]

----------------------------------------------------------------------------
(* The job tools only read *)

JobQueries == {"validate_dependencies", "suggest_next_jobs",
               "generate_conflict_resolution", "auto_assign_jobs"}

----------------------------------------------------------------------------
(* Properties of the loaders *)

\* the records of the well-formed lines, in the order of the file
WellFormed(lines) ==
    LET kept == SelectSeq(lines, LAMBDA l : l.kind = "record")
    IN [n \in 1..Len(kept) |-> kept[n].value]

\* C33: a loader of the agents, the jobs or the sessions file is never ended by an
\* exception: for a missing file it returns no record, and otherwise it returns
\* the records of the well-formed lines, every one of them and in the order of the
\* file, skipping every malformed line.
C33_LoadNeverAborts ==
    op.name \in {"load_jobs", "_load_sessions", "load_agent_data"} =>
        /\ ~ret.aborted
        /\ ret.records = IF raw_file.exists THEN WellFormed(raw_file.lines) ELSE <<>>

----------------------------------------------------------------------------
(* Properties of execute_workflow *)

\* the indexes of the steps that have completed
CompletedIndexes(w) == {w.steps_completed[n].step_index : n \in 1..Len(w.steps_completed)}

\* the last entry of steps_failed says that the step at index i had unmet dependencies
NotAttempted(w, i) ==
    /\ w.steps_failed # <<>>
    /\ w.steps_failed[Len(w.steps_failed)].step_index = i
    /\ w.steps_failed[Len(w.steps_failed)].error = "Dependencies not met"

\* C34: execute_workflow handles the steps in list order, and it attempts a step
\* (asks for an agent) exactly when every index in the step's dependencies is the
\* index of a step that completed earlier in the run; a step with an unmet
\* dependency gets an entry in steps_failed and no agent is spawned for it.
C34_WorkflowDependencies ==
    [][op'.name = "execute_workflow" =>
          LET i == workflow.i
              step == workflow.steps[i + 1]
              met == \A n \in 1..Len(step.dependencies) :
                         step.dependencies[n] \in CompletedIndexes(workflow)
          IN /\ op'.args[1] = i
             /\ workflow'.i = i + 1
             /\ met <=> ~NotAttempted(workflow', i)
             /\ ~met => /\ Len(workflow'.steps_failed) = Len(workflow.steps_failed) + 1
                        /\ workflow'.agents_spawned = workflow.agents_spawned
                        /\ workflow'.steps_completed = workflow.steps_completed]_vars

----------------------------------------------------------------------------
(* Properties of the spawn timer and of the current task *)

\* C35: when a spawn thread wakes up it changes the status of its agent only if the
\* agent is still spawning: an agent that update_agent_status has meanwhile set to
\* working, paused or error keeps that status.
C35_TimerOnlyFromSpawning ==
    [][Called("complete_spawning") =>
          LET m == op'.args[1]
              a == op'.args[2]
          IN (Known(m, a) /\ Get(agents[m], a).status # SPAWNING)
                 => Get(agents'[m], a).status = Get(agents[m], a).status]_vars

\* C36: in every reachable state an agent whose status is idle or completed has no
\* current_task; as assign_task succeeds only on such agents, the current_task was
\* empty before every successful assign_task and a task an agent holds, the one
\* given at spawn included, is never replaced by another.
C36_AvailableHoldsNoTask ==
    \A m \in live : \A i \in 1..Len(agents[m]) :
        agents[m][i].status \in {IDLE, COMPLETED}
            => agents[m][i].current_task \notin TaskArgs

----------------------------------------------------------------------------
(* Properties of concurrent assign_task calls *)

\* thread t has got value back from assign_task(agent_id, task_id)
Returned(t, agent_id, task_id, value) ==
    /\ threads[t].name = "returned"
    /\ threads[t].agent_id = agent_id
    /\ threads[t].todo[1].task_id = task_id
    /\ threads[t].todo[1].value = value

\* C37: of two assign_task calls made at the same time on the same idle agent with
\* different task ids at most one returns true, and when both have returned the
\* current_task of the agent is the task id of the call that returned true.
C37_OneAssignWins ==
    \A t, u \in Threads : \A a \in Ids(agents[Shared]) : \A x, y \in TaskArgs :
        (t # u /\ x # y) =>
            /\ ~(Returned(t, a, x, TRUE) /\ Returned(u, a, y, TRUE))
            /\ (Returned(t, a, x, TRUE) /\ Returned(u, a, y, FALSE))
                   => Get(agents[Shared], a).current_task = x

----------------------------------------------------------------------------
(* Properties of the pause records of a session *)

\* the total length of the pause records that have an end
RECURSIVE ClosedPauseTotal(_)
ClosedPauseTotal(pauses) ==
    IF pauses = <<>> THEN 0
    ELSE (IF Head(pauses).pause_end = NotSet
          THEN 0
          ELSE Head(pauses).pause_end - Head(pauses).pause_start)
         + ClosedPauseTotal(Tail(pauses))

\* the positions of the pause records that have no end
OpenPauses(pauses) == {k \in 1..Len(pauses) : pauses[k].pause_end = NotSet}

\* C38: in every reachable state every session has paused_time equal to the sum of
\* pause_end - pause_start over its closed pause records, has at most one open pause
\* record and that one is the last, has an open pause when it is paused, and has no
\* open pause when it is active or completed.
C38_PauseRecords ==
    \A i \in 1..Len(sessions_file) :
        LET s == sessions_file[i]
            open == OpenPauses(s.pauses)
        IN /\ s.paused_time = ClosedPauseTotal(s.pauses)
           /\ open \subseteq {Len(s.pauses)}
           /\ s.status = "paused" => open # {}
           /\ s.status \in {"active", "completed"} => open = {}

\* a session is paused for the second time after a first pause that took time
C38_Witness ==
    \E i \in 1..Len(sessions_file) :
        LET s == sessions_file[i]
        IN /\ s.status = "paused"
           /\ Len(s.pauses) = 2
           /\ s.pauses[1].pause_end # NotSet
           /\ s.paused_time > 0
           /\ OpenPauses(s.pauses) = {2}

----------------------------------------------------------------------------
(* Properties of the task counter *)

\* C39: in every reachable state, for every agent of every manager and of the file,
\* metrics.tasks_completed is the number of entries of completed_tasks.
C39_TasksCompletedCounts ==
    /\ \A m \in Managers : \A k \in 1..Len(agents[m]) :
           agents[m][k].metrics.tasks_completed = Len(agents[m][k].completed_tasks)
    /\ \A k \in 1..Len(agents_file) :
           agents_file[k].metrics.tasks_completed = Len(agents_file[k].completed_tasks)

\* an agent has completed two tasks, the first of which failed
C39_Witness ==
    \E m \in Managers : \E k \in 1..Len(agents[m]) :
        LET agent == agents[m][k]
        IN /\ Len(agent.completed_tasks) = 2
           /\ ~agent.completed_tasks[1].success
           /\ agent.metrics.tasks_completed = 2

----------------------------------------------------------------------------
(* Properties of the walk of validate_dependencies *)

\* C40: validate_dependencies terminates on every finite job set, with cycles,
\* self-dependencies and unknown ids among the dependencies: every run of it comes
\* to its return statement.
C40_ValidateTerminates == <>walk.done

\* the walk has come to its end on a file with a dependency cycle between two jobs,
\* a self-dependency or an unknown id
C40_Witness ==
    /\ walk.done
    /\ Len(jobs) = 2
    /\ jobs[1].dependencies = <<jobs[2].id, jobs[1].id>>
    /\ jobs[2].dependencies = <<MissingJob, jobs[1].id>>
    /\ ~walk.valid

====
